---- MODULE Spec2Model ----
(***************************************************************************)
(* A model of the renderfx math library (include/math): Vector2/Vector3,   *)
(* Matrix4x4, Quaternion and the geometry primitives.                      *)
(*                                                                         *)
(* Scalars.  The library is generic over a scalar type T.  A scalar is     *)
(* modelled as an exact rational <<n, d>> in lowest terms with d > 0, so   *)
(* every algebraic step of the code is computed as written, without        *)
(* rounding.  std::numeric_limits<T>::epsilon() is 2^-23 for float,        *)
(* 2^-52 for double and 0 for int.                                         *)
(*                                                                         *)
(* Angles.  A scalar holding an angle in (-pi, pi] is modelled by the      *)
(* point [c, s] of the unit circle it names; std::sin, std::cos,           *)
(* std::acos, std::asin and std::atan2 are exact on such points.           *)
(*                                                                         *)
(* Errors.  An operation's outcome is a record whose status is "ok",       *)
(* the name of the exception thrown, or "terminate" when an exception      *)
(* leaves a function declared noexcept (std::terminate ends the program).  *)
(***************************************************************************)
EXTENDS Integers, Sequences, FiniteSets, TLC

VARIABLES
    mat,        \* Matrix4x4<float>: the matrix object under test (data[4][4])
    edits,      \* number of element writes made through operator()(row, col)
    mres,       \* outcome of the last call on mat
    qa,         \* Quaternion<float>: the first operand (w, x, y, z)
    qb,         \* Quaternion<float>: the second operand
    euler,      \* the pitch, yaw and roll angles handed to fromEulerAngles
    qsrc,       \* how qa was built: "default", "components", "euler", or
                \* "angles" while fromEulerAngles is still to be called
    qres,       \* outcome of the last quaternion call
    pn,         \* Vector3f: the normal handed to the Plane constructors
    pq,         \* Vector3f: the point handed to Plane(normal, point)
    plane,      \* Plane<float>: normal and distance
    vp,         \* Matrix4x4f: the view-projection matrix handed to updatePlanes
    frustum,    \* Frustum<float>: planes[6]
    ta,         \* Transform<float>: the receiver of interpolate
    tb,         \* Transform<float>: the other end of the interpolation
    gres,       \* outcome of the last geometry call; status "terminate" when
                \* std::terminate has ended the program
    vT,         \* the scalar type the vectors are instantiated with
    v2a,        \* Vector2<T>: left operand
    v2b,        \* Vector2<T>: right operand
    v3a,        \* Vector3<T>: left operand
    v3b,        \* Vector3<T>: right operand
    vres,       \* outcome of the last vector call
    vwrites,    \* number of in-place operations (normalize, /=) made on the vectors
    ray,        \* Ray<float>: origin and direction
    box,        \* AABB<float>: min and max
    sphere,     \* Sphere<float>: center and radius
    tMin,       \* the caller's variable bound to AABB::intersects' tMin
    tMax,       \* the caller's variable bound to AABB::intersects' tMax
    tHit,       \* the caller's variable bound to the t of Plane/Sphere::intersects
    rres,       \* outcome of the last ray query
    ra,         \* Rect<float>: the receiver (x, y, width, height)
    rb,         \* Rect<float>: the other rectangle
    expands,    \* the expand calls made on ra: the rectangle before, and the point
    cres        \* outcome of the last Rect call

matVars == <<mat, edits, mres>>

quatVars == <<qa, qb, euler, qsrc, qres>>

geoVars == <<pn, pq, plane, vp, frustum, ta, tb, gres>>

vecVars == <<vT, v2a, v2b, v3a, v3b, vres, vwrites>>

rayVars == <<ray, box, sphere, tMin, tMax, tHit, rres>>

rectVars == <<ra, rb, expands, cres>>

vars == <<mat, edits, mres, qa, qb, euler, qsrc, qres,
          pn, pq, plane, vp, frustum, ta, tb, gres,
          vT, v2a, v2b, v3a, v3b, vres, vwrites,
          ray, box, sphere, tMin, tMax, tHit, rres,
          ra, rb, expands, cres>>

(***************************************************************************)
(* Rational scalars                                                        *)
(***************************************************************************)
Abs(n) == IF n < 0 THEN -n ELSE n

Sgn(n) == IF n < 0 THEN -1 ELSE IF n > 0 THEN 1 ELSE 0

RECURSIVE GCD(_, _)
GCD(a, b) == IF b = 0 THEN a ELSE GCD(b, a % b)

\* the rational n/d (d # 0) in lowest terms with a positive denominator
R(n, d) ==
    LET g == GCD(Abs(n), Abs(d))
        s == IF d < 0 THEN -1 ELSE 1
    IN  <<(s * n) \div g, (s * d) \div g>>

I(n) == <<n, 1>>

Zero == <<0, 1>>

One == <<1, 1>>

Two == <<2, 1>>

RNeg(a) == <<-a[1], a[2]>>

RAbs(a) == <<Abs(a[1]), a[2]>>

RAdd(a, b) ==
    LET g == GCD(a[2], b[2])
    IN  R(a[1] * (b[2] \div g) + b[1] * (a[2] \div g), (a[2] \div g) * b[2])

RSub(a, b) == RAdd(a, RNeg(b))

RMul(a, b) ==
    LET g1 == GCD(Abs(a[1]), b[2])
        g2 == GCD(Abs(b[1]), a[2])
    IN  R((a[1] \div g1) * (b[1] \div g2), (a[2] \div g2) * (b[2] \div g1))

\* a / b for b # 0
RDiv(a, b) == RMul(a, R(b[2], b[1]))

RLt(a, b) ==
    LET g == GCD(a[2], b[2])
    IN  a[1] * (b[2] \div g) < b[1] * (a[2] \div g)

RLe(a, b) == ~RLt(b, a)

RGt(a, b) == RLt(b, a)

RGe(a, b) == ~RLt(a, b)

RMax(a, b) == IF RLt(a, b) THEN b ELSE a

RMin(a, b) == IF RLt(b, a) THEN b ELSE a

RMul3(a, b, c) == RMul(RMul(a, b), c)

RECURSIVE RSum(_)
RSum(s) == IF s = <<>> THEN Zero ELSE RAdd(s[1], RSum(Tail(s)))

\* the largest r in lo .. hi with r * r <= k, given lo * lo <= k
RECURSIVE ISqrtIn(_, _, _)
ISqrtIn(k, lo, hi) ==
    IF lo >= hi THEN lo
    ELSE LET mid == (lo + hi + 1) \div 2
         IN  IF mid * mid <= k THEN ISqrtIn(k, mid, hi) ELSE ISqrtIn(k, lo, mid - 1)

\* floor of the square root of an integer 0 <= k < 2^31
ISqrt(k) == ISqrtIn(k, 0, 46340)

IsSquare(k) == LET r == ISqrt(k) IN r * r = k

\* the rounded results of std::sqrt are multiples of 1 / SqrtScale
SqrtScale == 256

\* a scaled by SqrtScale^2 and rounded down to an integer
ScaledFloor(a) ==
    LET k  == (a[2] \div 16384) + 1
        r  == (a[1] % a[2]) \div k
        d  == IF a[2] \div k = 0 THEN 1 ELSE a[2] \div k
    IN  (a[1] \div a[2]) * (SqrtScale * SqrtScale) + (r * (SqrtScale * SqrtScale)) \div d

\* std::sqrt(a) for a >= 0: exact when the root is rational, rounded otherwise
Sqrt(a) ==
    IF IsSquare(a[1]) /\ IsSquare(a[2])
    THEN <<ISqrt(a[1]), ISqrt(a[2])>>
    ELSE R(ISqrt(ScaledFloor(a)), SqrtScale)

(***************************************************************************)
(* Angles: a scalar holding an angle in (-pi, pi] is the point            *)
(* [c |-> cos, s |-> sin] of the unit circle                              *)
(***************************************************************************)
Angle(c, s) == [c |-> c, s |-> s]

AngleZero == Angle(One, Zero)

\* std::cos, std::sin
Cos(a) == a.c

Sin(a) == a.s

\* angle * 0.5, in (-pi/2, pi/2]
AngleHalf(a) ==
    LET ch == Sqrt(RDiv(RAdd(One, a.c), Two))
        sh == Sqrt(RDiv(RSub(One, a.c), Two))
    IN  Angle(ch, IF a.s[1] < 0 THEN RNeg(sh) ELSE sh)

\* angle * 2 (only its sine and cosine are read afterwards)
AngleDouble(a) ==
    Angle(RSub(RMul(a.c, a.c), RMul(a.s, a.s)), RMul(Two, RMul(a.c, a.s)))

\* angle * t for the interpolation parameters of SampleTs
AngleTimes(a, t) ==
    CASE t = Zero      -> AngleZero
      [] t = One       -> a
      [] t = <<1, 2>>  -> AngleHalf(a)
      [] t = <<-1, 2>> -> LET h == AngleHalf(a) IN Angle(h.c, RNeg(h.s))
      [] t = Two       -> AngleDouble(a)
      [] t = I(-1)     -> Angle(a.c, RNeg(a.s))

\* std::acos(x) for -1 <= x <= 1, in [0, pi]
ACos(x) == Angle(x, Sqrt(RSub(One, RMul(x, x))))

\* std::asin(x) for -1 <= x <= 1, in [-pi/2, pi/2]
ASin(x) == Angle(Sqrt(RSub(One, RMul(x, x))), x)

\* std::atan2(y, x)
ATan2(y, x) ==
    LET r == Sqrt(RAdd(RMul(x, x), RMul(y, y)))
    IN  IF r = Zero THEN AngleZero ELSE Angle(RDiv(x, r), RDiv(y, r))

(***************************************************************************)
(* std::numeric_limits<T>::epsilon()                                       *)
(***************************************************************************)
ScalarTypes == {"float", "double", "int"}

\* 1 / epsilon() for float: 2^23
FloatEpsInv == 8388608

\* 1 / epsilon() for double is 2^52 = DoubleEpsInvRoot^2
DoubleEpsInvRoot == 67108864

\* x < std::numeric_limits<T>::epsilon()
BelowEps(T, x) ==
    CASE T = "int"    -> x[1] < 0
      [] T = "float"  -> x[1] <= (x[2] - 1) \div FloatEpsInv
      [] T = "double" -> x[1] <= ((x[2] - 1) \div DoubleEpsInvRoot) \div DoubleEpsInvRoot

\* x > std::numeric_limits<T>::epsilon()
AboveEps(T, x) ==
    CASE T = "int"    -> x[1] > 0
      [] T = "float"  -> x[1] > x[2] \div FloatEpsInv
      [] T = "double" -> x[1] > (x[2] \div DoubleEpsInvRoot) \div DoubleEpsInvRoot

(***************************************************************************)
(* Outcomes                                                                *)
(***************************************************************************)
Ok(v) == [status |-> "ok", value |-> v]

Throw(e) == [status |-> e, value |-> "none"]

\* a call made inside a function declared noexcept: an exception that would
\* leave it calls std::terminate
NoExcept(r) == IF r.status = "ok" THEN r ELSE [status |-> "terminate", value |-> "none"]

NoCall == [op |-> "none", arg |-> "none", status |-> "none", value |-> "none"]

Call(op, arg, r) == [op |-> op, arg |-> arg, status |-> r.status, value |-> r.value]

(***************************************************************************)
(* Vector3                                                                 *)
(***************************************************************************)
Vec3(x, y, z) == [x |-> x, y |-> y, z |-> z]

IVec3(x, y, z) == Vec3(I(x), I(y), I(z))

\* Vector3::operator[] for an index in 0..2
VIdx(v, i) == CASE i = 0 -> v.x [] i = 1 -> v.y [] i = 2 -> v.z

\* Vector3::operator+, operator-, operator*(T), operator*(const Vector3&)
V3Add(a, b) == Vec3(RAdd(a.x, b.x), RAdd(a.y, b.y), RAdd(a.z, b.z))

V3Sub(a, b) == Vec3(RSub(a.x, b.x), RSub(a.y, b.y), RSub(a.z, b.z))

V3Scale(v, k) == Vec3(RMul(v.x, k), RMul(v.y, k), RMul(v.z, k))

V3MulVec(a, b) == Vec3(RMul(a.x, b.x), RMul(a.y, b.y), RMul(a.z, b.z))

\* x / s in the scalar type T: exact for the floating types, truncated toward
\* zero for int (s # 0)
TDiv(T, x, k) ==
    IF T = "int"
    THEN I(Sgn(x[1]) * Sgn(k[1]) * (Abs(x[1]) \div Abs(k[1])))
    ELSE RDiv(x, k)

\* Vector3::operator/(T) and operator/=(T): the quotient, or the exception;
\* status "undefined" is the integer division by zero the test lets through
V3Div(T, v, k) ==
    IF BelowEps(T, RAbs(k))
    THEN Throw("invalid_argument")
    ELSE IF k = Zero
         THEN Throw("undefined")
         ELSE Ok(Vec3(TDiv(T, v.x, k), TDiv(T, v.y, k), TDiv(T, v.z, k)))

\* Vector3::dot, lengthSquared, length
V3Dot(a, b) == RSum(<<RMul(a.x, b.x), RMul(a.y, b.y), RMul(a.z, b.z)>>)

V3LengthSquared(v) == V3Dot(v, v)

\* std::sqrt(lengthSquared()) converted to T
V3Length(T, v) ==
    IF T = "int" THEN I(ISqrt(V3LengthSquared(v)[1])) ELSE Sqrt(V3LengthSquared(v))

\* Vector3::normalized (and normalize, whose result replaces *this)
V3Normalized(T, v) ==
    LET len == V3Length(T, v)
    IN  IF BelowEps(T, len) THEN Throw("domain_error") ELSE V3Div(T, v, len)

\* Vector3::slerp for T = float or double and t in {0, 1/2, 1}: the value,
\* or the exception of normalized()
V3Slerp(T, a, b, t) ==
    LET dot         == RMax(I(-1), RMin(One, V3Dot(a, b)))
        theta       == AngleTimes(ACos(dot), t)
        relativeVec == V3Normalized(T, V3Sub(b, V3Scale(a, dot)))
    IN  IF relativeVec.status = "ok"
        THEN Ok(V3Add(V3Scale(a, Cos(theta)), V3Scale(relativeVec.value, Sin(theta))))
        ELSE relativeVec

\* Vector3::operator==
V3Eq(T, a, b) ==
    /\ BelowEps(T, RAbs(RSub(a.x, b.x)))
    /\ BelowEps(T, RAbs(RSub(a.y, b.y)))
    /\ BelowEps(T, RAbs(RSub(a.z, b.z)))

\* Vector3::operator!=
V3Ne(T, a, b) == ~V3Eq(T, a, b)

\* Vector3::lerp
V3Lerp(a, b, t) == V3Add(a, V3Scale(V3Sub(b, a), t))

(***************************************************************************)
(* Vector2                                                                 *)
(***************************************************************************)
Vec2(x, y) == [x |-> x, y |-> y]

IVec2(x, y) == Vec2(I(x), I(y))

\* Vector2::operator/(T) and operator/=(T): the quotient, or the exception;
\* status "undefined" is the integer division by zero the test lets through
V2Div(T, v, k) ==
    IF BelowEps(T, RAbs(k))
    THEN Throw("invalid_argument")
    ELSE IF k = Zero
         THEN Throw("undefined")
         ELSE Ok(Vec2(TDiv(T, v.x, k), TDiv(T, v.y, k)))

\* Vector2::dot, lengthSquared, length
V2Dot(a, b) == RAdd(RMul(a.x, b.x), RMul(a.y, b.y))

V2LengthSquared(v) == V2Dot(v, v)

\* std::sqrt(lengthSquared()) converted to T
V2Length(T, v) ==
    IF T = "int" THEN I(ISqrt(V2LengthSquared(v)[1])) ELSE Sqrt(V2LengthSquared(v))

\* Vector2::normalized (and normalize, whose result replaces *this)
V2Normalized(T, v) ==
    LET len == V2Length(T, v)
    IN  IF BelowEps(T, len) THEN Throw("domain_error") ELSE V2Div(T, v, len)

\* Vector2::operator==
V2Eq(T, a, b) ==
    /\ BelowEps(T, RAbs(RSub(a.x, b.x)))
    /\ BelowEps(T, RAbs(RSub(a.y, b.y)))

\* Vector2::operator!=
V2Ne(T, a, b) == ~V2Eq(T, a, b)

(***************************************************************************)
(* Matrix4x4                                                               *)
(***************************************************************************)
Idx == 0 .. 3

\* Matrix4x4::Matrix4x4(): the identity
MatDefault == [i \in Idx |-> [j \in Idx |-> IF i = j THEN One ELSE Zero]]

MatIdentity == MatDefault

\* Matrix4x4::Matrix4x4(const std::array<T, 16>&): data[i / 4][i % 4] = values[i]
MatFromValues(values) == [i \in Idx |-> [j \in Idx |-> values[4 * i + j + 1]]]

\* Matrix4x4::operator()(row, col) as an lvalue
MatSet(m, i, j, v) == [m EXCEPT ![i][j] = v]

\* Matrix4x4::operator*(const Matrix4x4&)
MatMul(a, b) ==
    [i \in Idx |-> [j \in Idx |->
        RSum(<<RMul(a[i][0], b[0][j]), RMul(a[i][1], b[1][j]),
               RMul(a[i][2], b[2][j]), RMul(a[i][3], b[3][j])>>)]]

\* mutant of MatMulVec: the elements are read as (col, row)
MatMulVec_Transposed(m, v) ==
    LET x == RSum(<<RMul(v.x, m[0][0]), RMul(v.y, m[1][0]), RMul(v.z, m[2][0]), m[3][0]>>)
        y == RSum(<<RMul(v.x, m[0][1]), RMul(v.y, m[1][1]), RMul(v.z, m[2][1]), m[3][1]>>)
        z == RSum(<<RMul(v.x, m[0][2]), RMul(v.y, m[1][2]), RMul(v.z, m[2][2]), m[3][2]>>)
        w == RSum(<<RMul(v.x, m[0][3]), RMul(v.y, m[1][3]), RMul(v.z, m[2][3]), m[3][3]>>)
    IN  IF AboveEps("float", RAbs(w))
        THEN Vec3(RDiv(x, w), RDiv(y, w), RDiv(z, w))
        ELSE Vec3(x, y, z)

\* Matrix4x4::operator*(const Vector3&)
MatMulVec(m, v) ==
    LET x == RSum(<<RMul(v.x, m[0][0]), RMul(v.y, m[0][1]), RMul(v.z, m[0][2]), m[0][3]>>)
        y == RSum(<<RMul(v.x, m[1][0]), RMul(v.y, m[1][1]), RMul(v.z, m[1][2]), m[1][3]>>)
        z == RSum(<<RMul(v.x, m[2][0]), RMul(v.y, m[2][1]), RMul(v.z, m[2][2]), m[2][3]>>)
        w == RSum(<<RMul(v.x, m[3][0]), RMul(v.y, m[3][1]), RMul(v.z, m[3][2]), m[3][3]>>)
    IN  IF AboveEps("float", RAbs(w))
        THEN Vec3(RDiv(x, w), RDiv(y, w), RDiv(z, w))
        ELSE Vec3(x, y, z)

\* Matrix4x4::translation
MatTranslation(t) ==
    MatSet(MatSet(MatSet(MatIdentity, 0, 3, t.x), 1, 3, t.y), 2, 3, t.z)

\* Matrix4x4::scaling
MatScaling(s) ==
    MatSet(MatSet(MatSet(MatIdentity, 0, 0, s.x), 1, 1, s.y), 2, 2, s.z)

\* Matrix4x4::orthographic, for right # left, top # bottom, farVal # nearVal
MatOrthographic(left, right, bottom, top, nearVal, farVal) ==
    [MatDefault EXCEPT
        ![0][0] = RDiv(Two, RSub(right, left)),
        ![1][1] = RDiv(Two, RSub(top, bottom)),
        ![2][2] = RDiv(I(-2), RSub(farVal, nearVal)),
        ![0][3] = RDiv(RNeg(RAdd(right, left)), RSub(right, left)),
        ![1][3] = RDiv(RNeg(RAdd(top, bottom)), RSub(top, bottom)),
        ![2][3] = RDiv(RNeg(RAdd(farVal, nearVal)), RSub(farVal, nearVal)),
        ![3][3] = One]

\* the signed sum of six triple products a1*b1*c1 - a2*b2*c2 ... as written
\* in inverse(): each element of terms is <<sign, a, b, c>>
RECURSIVE SignedProducts(_)
SignedProducts(terms) ==
    IF terms = <<>> THEN Zero
    ELSE LET t == terms[1]
             p == RMul3(t[2], t[3], t[4])
         IN  RAdd(IF t[1] < 0 THEN RNeg(p) ELSE p, SignedProducts(Tail(terms)))

\* inverse(): the four elements inv(0,0), inv(1,0), inv(2,0), inv(3,0) it computes
InvCol0(d) ==
    [i \in Idx |->
        CASE i = 0 -> SignedProducts(<<
                <<1, d[1][1], d[2][2], d[3][3]>>, <<-1, d[1][1], d[2][3], d[3][2]>>,
                <<-1, d[2][1], d[1][2], d[3][3]>>, <<1, d[2][1], d[1][3], d[3][2]>>,
                <<1, d[3][1], d[1][2], d[2][3]>>, <<-1, d[3][1], d[1][3], d[2][2]>> >>)
          [] i = 1 -> SignedProducts(<<
                <<-1, d[1][0], d[2][2], d[3][3]>>, <<1, d[1][0], d[2][3], d[3][2]>>,
                <<1, d[2][0], d[1][2], d[3][3]>>, <<-1, d[2][0], d[1][3], d[3][2]>>,
                <<-1, d[3][0], d[1][2], d[2][3]>>, <<1, d[3][0], d[1][3], d[2][2]>> >>)
          [] i = 2 -> SignedProducts(<<
                <<1, d[1][0], d[2][1], d[3][3]>>, <<-1, d[1][0], d[2][3], d[3][1]>>,
                <<-1, d[2][0], d[1][1], d[3][3]>>, <<1, d[2][0], d[1][3], d[3][1]>>,
                <<1, d[3][0], d[1][1], d[2][3]>>, <<-1, d[3][0], d[1][3], d[2][1]>> >>)
          [] i = 3 -> SignedProducts(<<
                <<-1, d[1][0], d[2][1], d[3][2]>>, <<1, d[1][0], d[2][2], d[3][1]>>,
                <<1, d[2][0], d[1][1], d[3][2]>>, <<-1, d[2][0], d[1][2], d[3][1]>>,
                <<-1, d[3][0], d[1][1], d[2][2]>>, <<1, d[3][0], d[1][2], d[2][1]>> >>)]

\* inverse(): det = data[0][0]*inv(0,0) + data[0][1]*inv(1,0) + ...
InvDet(d) ==
    LET c == InvCol0(d)
    IN  RSum(<<RMul(d[0][0], c[0]), RMul(d[0][1], c[1]),
               RMul(d[0][2], c[2]), RMul(d[0][3], c[3])>>)

\* mutant of MatInverse: the singularity test compares det with exactly zero
MatInverse_ExactZeroTest(d) ==
    LET c   == InvCol0(d)
        det == InvDet(d)
        inv == [i \in Idx |-> [j \in Idx |-> IF j = 0 THEN c[i] ELSE MatDefault[i][j]]]
    IN  IF det = Zero
        THEN Throw("runtime_error")
        ELSE Ok([i \in Idx |-> [j \in Idx |-> RMul(inv[i][j], RDiv(One, det))]])

\* Matrix4x4::inverse(): inv starts as the default (identity) matrix, only
\* its column 0 is assigned, and all 16 elements are scaled by 1 / det
MatInverse(d) ==
    LET c   == InvCol0(d)
        det == InvDet(d)
        inv == [i \in Idx |-> [j \in Idx |-> IF j = 0 THEN c[i] ELSE MatDefault[i][j]]]
    IN  IF BelowEps("float", RAbs(det))
        THEN Throw("runtime_error")
        ELSE Ok([i \in Idx |-> [j \in Idx |-> RMul(inv[i][j], RDiv(One, det))]])

\* one bracket of determinant(): a*b*c + ... - ... of three rows' elements
Det3(p1, p2, p3, n1, n2, n3) ==
    RSub(RSub(RSub(RAdd(RAdd(RMul3(p1[1], p1[2], p1[3]), RMul3(p2[1], p2[2], p2[3])),
                        RMul3(p3[1], p3[2], p3[3])),
                   RMul3(n1[1], n1[2], n1[3])),
              RMul3(n2[1], n2[2], n2[3])),
         RMul3(n3[1], n3[2], n3[3]))

\* Matrix4x4::determinant()
MatDeterminant(d) ==
    LET b0 == Det3(<<d[1][1], d[2][2], d[3][3]>>, <<d[1][2], d[2][3], d[3][1]>>,
                   <<d[1][3], d[2][1], d[3][2]>>, <<d[1][3], d[2][2], d[3][1]>>,
                   <<d[1][1], d[2][3], d[3][2]>>, <<d[1][2], d[2][1], d[3][3]>>)
        b1 == Det3(<<d[1][0], d[2][2], d[3][3]>>, <<d[1][2], d[2][3], d[3][0]>>,
                   <<d[1][3], d[2][0], d[3][2]>>, <<d[1][3], d[2][2], d[3][0]>>,
                   <<d[1][0], d[2][3], d[3][2]>>, <<d[1][2], d[2][0], d[3][3]>>)
        b2 == Det3(<<d[1][0], d[2][1], d[3][3]>>, <<d[1][1], d[2][3], d[3][0]>>,
                   <<d[1][3], d[2][0], d[3][1]>>, <<d[1][3], d[2][1], d[3][0]>>,
                   <<d[1][0], d[2][3], d[3][1]>>, <<d[1][1], d[2][0], d[3][3]>>)
        b3 == Det3(<<d[1][0], d[2][1], d[3][2]>>, <<d[1][1], d[2][2], d[3][0]>>,
                   <<d[1][2], d[2][0], d[3][1]>>, <<d[1][2], d[2][1], d[3][0]>>,
                   <<d[1][0], d[2][2], d[3][1]>>, <<d[1][1], d[2][0], d[3][2]>>)
    IN  RSub(RAdd(RSub(RMul(d[0][0], b0), RMul(d[0][1], b1)), RMul(d[0][2], b2)),
             RMul(d[0][3], b3))

(***************************************************************************)
(* Matrix4x4: inputs and operations                                        *)
(***************************************************************************)
\* most element writes made on one matrix before it is used
MaxEdits == 1

\* 2^-24, a float below epsilon(); 2^-22, a float above it
Tiny == <<1, 16777216>>

Small == <<1, 4194304>>

IntArray(s) == [k \in 1 .. 16 |-> I(s[k])]

DiagArray(a) ==
    [k \in 1 .. 16 |-> IF k = 1 THEN a ELSE IF k \in {6, 11, 16} THEN One ELSE Zero]

CornerArray(a) ==
    [k \in 1 .. 16 |-> IF k = 16 THEN a ELSE IF k \in {1, 6, 11} THEN One ELSE Zero]

\* arguments of the std::array constructor
SampleArrays ==
    { IntArray(<<0, 0, 0, 0,  0, 0, 0, 0,  0, 0, 0, 0,  0, 0, 0, 0>>),
      IntArray(<<2, 1, 0, 1,  1, 3, 1, 0,  0, 1, 2, 1,  1, 0, 1, 3>>),
      IntArray(<<1, 2, 3, 4,  5, 6, 7, 8,  9, 10, 11, 12,  13, 14, 15, 16>>),
      IntArray(<<0, 1, 0, 0,  0, 0, 1, 0,  0, 0, 0, 1,  1, 0, 0, 0>>),
      DiagArray(Tiny),
      DiagArray(Small),
      CornerArray(Tiny),
      CornerArray(Small) }

\* arguments of translation() and scaling()
SampleVecs ==
    { IVec3(1, 2, 3), IVec3(2, 2, 2), IVec3(2, 3, 5), IVec3(0, 1, 1), IVec3(-1, 1, 1),
      Vec3(<<1, 2>>, One, Two) }

\* values written through operator()(row, col)
WriteVals == { I(0), I(2), I(-1) }

MatZero == [i \in Idx |-> [j \in Idx |-> Zero]]

\* Matrix4x4(), Matrix4x4(values), translation(t), scaling(s)
SampleMatrices ==
    {MatDefault}
        \cup { MatFromValues(a) : a \in SampleArrays }
        \cup { MatTranslation(t) : t \in SampleVecs }
        \cup { MatScaling(v) : v \in SampleVecs }

\* every matrix variable as default-constructed
MatIdle(m, e, r) == m = MatDefault /\ e = 0 /\ r = NoCall

MatrixWrite ==
    \E i \in Idx, j \in Idx, v \in WriteVals :
        /\ edits < MaxEdits
        /\ mat' = MatSet(mat, i, j, v)
        /\ edits' = edits + 1
        /\ mres' = NoCall
        /\ UNCHANGED <<quatVars, geoVars, vecVars, rayVars, rectVars>>

MatrixInverse ==
    /\ mres' = Call("inverse", mat, MatInverse(mat))
    /\ UNCHANGED <<mat, edits>>
    /\ UNCHANGED <<quatVars, geoVars, vecVars, rayVars, rectVars>>

MatrixDeterminant ==
    /\ mres' = Call("determinant", mat, Ok(MatDeterminant(mat)))
    /\ UNCHANGED <<mat, edits>>
    /\ UNCHANGED <<quatVars, geoVars, vecVars, rayVars, rectVars>>

MatrixTransform ==
    \E v \in SampleVecs :
        /\ mres' = Call("operator*(Vector3)", <<mat, v>>, Ok(MatMulVec(mat, v)))
        /\ UNCHANGED <<mat, edits>>
        /\ UNCHANGED <<quatVars, geoVars, vecVars, rayVars, rectVars>>

MatNext ==
    \/ MatrixWrite
    \/ MatrixInverse
    \/ MatrixDeterminant
    \/ MatrixTransform

(***************************************************************************)
(* Quaternion                                                              *)
(***************************************************************************)
Quat(w, x, y, z) == [w |-> w, x |-> x, y |-> y, z |-> z]

IQuat(w, x, y, z) == Quat(I(w), I(x), I(y), I(z))

\* Quaternion::Quaternion(): the identity rotation
QuatDefault == IQuat(1, 0, 0, 0)

\* Quaternion::operator*(const Quaternion&)
QMul(p, q) ==
    Quat(RSub(RSub(RSub(RMul(p.w, q.w), RMul(p.x, q.x)), RMul(p.y, q.y)), RMul(p.z, q.z)),
         RSub(RAdd(RAdd(RMul(p.w, q.x), RMul(p.x, q.w)), RMul(p.y, q.z)), RMul(p.z, q.y)),
         RAdd(RAdd(RSub(RMul(p.w, q.y), RMul(p.x, q.z)), RMul(p.y, q.w)), RMul(p.z, q.x)),
         RAdd(RSub(RAdd(RMul(p.w, q.z), RMul(p.x, q.y)), RMul(p.y, q.x)), RMul(p.z, q.w)))

\* w*w + x*x + y*y + z*z
QMagSquared(q) == RSum(<<RMul(q.w, q.w), RMul(q.x, q.x), RMul(q.y, q.y), RMul(q.z, q.z)>>)

\* Quaternion::magnitude
QMagnitude(q) == Sqrt(QMagSquared(q))

\* Quaternion::normalized
QNormalized(q) ==
    LET mag == QMagnitude(q)
    IN  IF BelowEps("float", mag)
        THEN Throw("runtime_error")
        ELSE Ok(Quat(RDiv(q.w, mag), RDiv(q.x, mag), RDiv(q.y, mag), RDiv(q.z, mag)))

\* Quaternion::conjugate
QConjugate(q) == Quat(q.w, RNeg(q.x), RNeg(q.y), RNeg(q.z))

\* mutant of QInverse: the z component is not negated
QInverse_KeepZ(q) ==
    LET magSquared == QMagSquared(q)
    IN  IF BelowEps("float", magSquared)
        THEN Throw("runtime_error")
        ELSE LET invMagSquared == RDiv(One, magSquared)
             IN  Ok(Quat(RMul(q.w, invMagSquared), RMul(RNeg(q.x), invMagSquared),
                         RMul(RNeg(q.y), invMagSquared), RMul(q.z, invMagSquared)))

\* Quaternion::inverse
QInverse(q) ==
    LET magSquared == QMagSquared(q)
    IN  IF BelowEps("float", magSquared)
        THEN Throw("runtime_error")
        ELSE LET invMagSquared == RDiv(One, magSquared)
             IN  Ok(Quat(RMul(q.w, invMagSquared), RMul(RNeg(q.x), invMagSquared),
                         RMul(RNeg(q.y), invMagSquared), RMul(RNeg(q.z), invMagSquared)))

\* mutant of QRotate: conjugate() * p * (*this)
QRotate_ConjugateFirst(q, v) ==
    LET p == Quat(Zero, v.x, v.y, v.z)
        r == QMul(QMul(QConjugate(q), p), q)
    IN  Vec3(r.x, r.y, r.z)

\* Quaternion::operator*(const Vector3&)
QRotate(q, v) ==
    LET p == Quat(Zero, v.x, v.y, v.z)
        r == QMul(QMul(q, p), QConjugate(q))
    IN  Vec3(r.x, r.y, r.z)

\* Quaternion::toRotationMatrix: the other elements are those of the
\* default-constructed (identity) matrix
QToRotationMatrix(q) ==
    LET xx == RMul(q.x, q.x)  xy == RMul(q.x, q.y)  xz == RMul(q.x, q.z)
        yy == RMul(q.y, q.y)  yz == RMul(q.y, q.z)  zz == RMul(q.z, q.z)
        wx == RMul(q.w, q.x)  wy == RMul(q.w, q.y)  wz == RMul(q.w, q.z)
    IN  [MatDefault EXCEPT
            ![0][0] = RSub(One, RMul(Two, RAdd(yy, zz))),
            ![0][1] = RMul(Two, RSub(xy, wz)),
            ![0][2] = RMul(Two, RAdd(xz, wy)),
            ![1][0] = RMul(Two, RAdd(xy, wz)),
            ![1][1] = RSub(One, RMul(Two, RAdd(xx, zz))),
            ![1][2] = RMul(Two, RSub(yz, wx)),
            ![2][0] = RMul(Two, RSub(xz, wy)),
            ![2][1] = RMul(Two, RAdd(yz, wx)),
            ![2][2] = RSub(One, RMul(Two, RAdd(xx, yy))),
            ![3][3] = One]

\* Quaternion::toEulerAngles: the vector returned, each component an angle
QToEulerAngles(q) ==
    LET sinr_cosp == RMul(Two, RAdd(RMul(q.w, q.x), RMul(q.y, q.z)))
        cosr_cosp == RSub(One, RMul(Two, RAdd(RMul(q.x, q.x), RMul(q.y, q.y))))
        sinp      == RMul(Two, RSub(RMul(q.w, q.y), RMul(q.z, q.x)))
        siny_cosp == RMul(Two, RAdd(RMul(q.w, q.z), RMul(q.x, q.y)))
        cosy_cosp == RSub(One, RMul(Two, RAdd(RMul(q.y, q.y), RMul(q.z, q.z))))
    IN  [x |-> ATan2(sinr_cosp, cosr_cosp),
         y |-> IF RGe(RAbs(sinp), One)
               THEN Angle(Zero, I(Sgn(sinp[1])))
               ELSE ASin(sinp),
         z |-> ATan2(siny_cosp, cosy_cosp)]

\* Quaternion::fromEulerAngles(pitch, yaw, roll)
QFromEulerAngles(pitch, yaw, roll) ==
    LET cy == Cos(AngleHalf(yaw))
        sy == Sin(AngleHalf(yaw))
        cp == Cos(AngleHalf(pitch))
        sp == Sin(AngleHalf(pitch))
        cr == Cos(AngleHalf(roll))
        sr == Sin(AngleHalf(roll))
    IN  Quat(RAdd(RMul3(cr, cp, cy), RMul3(sr, sp, sy)),
             RSub(RMul3(sr, cp, cy), RMul3(cr, sp, sy)),
             RAdd(RMul3(cr, sp, cy), RMul3(sr, cp, sy)),
             RSub(RMul3(cr, cp, sy), RMul3(sr, sp, cy)))

QDot(p, q) == RSum(<<RMul(p.w, q.w), RMul(p.x, q.x), RMul(p.y, q.y), RMul(p.z, q.z)>>)

QNegated(q) == Quat(RNeg(q.w), RNeg(q.x), RNeg(q.y), RNeg(q.z))

\* mutant of QSlerpAdjust: dot is negated but q2 is not
QSlerpAdjust_DotOnly(q1, q2) ==
    LET dot == QDot(q1, q2)
    IN  IF RLt(dot, Zero)
        THEN [q2_adj |-> q2, dot |-> RNeg(dot)]
        ELSE [q2_adj |-> q2, dot |-> dot]

\* slerp: q2_adj and dot after the sign test
QSlerpAdjust(q1, q2) ==
    LET dot == QDot(q1, q2)
    IN  IF RLt(dot, Zero)
        THEN [q2_adj |-> QNegated(q2), dot |-> RNeg(dot)]
        ELSE [q2_adj |-> q2, dot |-> dot]

\* the literal 0.9995 of slerp
SlerpThreshold == <<1999, 2000>>

\* mutant of QSlerpLinear: q2_adj + q1 in place of q2_adj - q1
QSlerpLinear_SignSlip(q1, q2_adj, t) ==
    QNormalized(Quat(RAdd(q1.w, RMul(t, RAdd(q2_adj.w, q1.w))),
                     RAdd(q1.x, RMul(t, RAdd(q2_adj.x, q1.x))),
                     RAdd(q1.y, RMul(t, RAdd(q2_adj.y, q1.y))),
                     RAdd(q1.z, RMul(t, RAdd(q2_adj.z, q1.z)))))

\* slerp: the linear branch taken when dot > 0.9995
QSlerpLinear(q1, q2_adj, t) ==
    QNormalized(Quat(RAdd(q1.w, RMul(t, RSub(q2_adj.w, q1.w))),
                     RAdd(q1.x, RMul(t, RSub(q2_adj.x, q1.x))),
                     RAdd(q1.y, RMul(t, RSub(q2_adj.y, q1.y))),
                     RAdd(q1.z, RMul(t, RSub(q2_adj.z, q1.z)))))

\* slerp: the spherical branch, for 0 <= dot <= 0.9995
QSlerpSpherical(q1, q2_adj, dot, t) ==
    LET theta_0     == ACos(dot)
        theta       == AngleTimes(theta_0, t)
        sin_theta   == Sin(theta)
        sin_theta_0 == Sin(theta_0)
        s0 == RSub(Cos(theta), RDiv(RMul(dot, sin_theta), sin_theta_0))
        s1 == RDiv(sin_theta, sin_theta_0)
    IN  Ok(Quat(RAdd(RMul(s0, q1.w), RMul(s1, q2_adj.w)),
                RAdd(RMul(s0, q1.x), RMul(s1, q2_adj.x)),
                RAdd(RMul(s0, q1.y), RMul(s1, q2_adj.y)),
                RAdd(RMul(s0, q1.z), RMul(s1, q2_adj.z))))

\* Quaternion::slerp
QSlerp(q1, q2, t) ==
    LET a == QSlerpAdjust(q1, q2)
    IN  IF RGt(a.dot, SlerpThreshold)
        THEN QSlerpLinear(q1, a.q2_adj, t)
        ELSE QSlerpSpherical(q1, a.q2_adj, a.dot, t)

(***************************************************************************)
(* Quaternion: inputs and operations                                       *)
(***************************************************************************)
\* 2^-12 and 2^-11: the squared magnitudes 2^-24 and 2^-22 straddle epsilon()
QTiny == <<1, 4096>>

QSmall == <<1, 2048>>

\* arguments of Quaternion(w, x, y, z): unit quaternions
UnitQuats ==
    { IQuat(1, 0, 0, 0), IQuat(-1, 0, 0, 0), IQuat(0, 1, 0, 0), IQuat(0, 0, 0, -1),
      Quat(<<3, 5>>, <<4, 5>>, Zero, Zero),
      Quat(<<7, 25>>, <<24, 25>>, Zero, Zero),
      Quat(<<-7, 25>>, <<24, 25>>, Zero, Zero),
      Quat(<<1, 2>>, <<1, 2>>, <<1, 2>>, <<1, 2>>),
      Quat(<<2, 3>>, <<-2, 3>>, <<1, 3>>, Zero) }

\* arguments of Quaternion(w, x, y, z): not of unit magnitude
OtherQuats ==
    { IQuat(0, 0, 0, 0), IQuat(2, 0, 0, 0), IQuat(1, 1, 0, 0),
      Quat(<<1, 2>>, Zero, Zero, Zero),
      Quat(QTiny, Zero, Zero, Zero), Quat(QSmall, Zero, Zero, Zero) }

\* the operand pairs (qa, qb) the calls are made on
SamplePairs ==
    (UnitQuats \X UnitQuats)
        \cup { <<q, q>> : q \in { IQuat(0, 0, 0, 0), IQuat(2, 0, 0, 0), IQuat(1, 1, 0, 0),
                                  Quat(<<1, 2>>, Zero, Zero, Zero) } }
        \cup { <<q, IQuat(0, 0, 0, 0)>> : q \in OtherQuats }
        \cup { <<IQuat(1, 0, 0, 0), IQuat(2, 0, 0, 0)>>, <<IQuat(1, 1, 0, 0), IQuat(2, 0, 0, 0)>> }

\* interpolation parameters
SampleTs == { Zero, <<1, 2>>, One, Two, I(-1), <<-1, 2>> }

\* angles whose half angles have rational sines and cosines
SampleAngles ==
    { AngleZero, Angle(I(-1), Zero),
      Angle(<<7, 25>>, <<24, 25>>), Angle(<<7, 25>>, <<-24, 25>>),
      Angle(<<-7, 25>>, <<24, 25>>), Angle(<<-7, 25>>, <<-24, 25>>) }

\* pitch angles away from +-90 degrees
SamplePitches == { a \in SampleAngles : RGt(a.c, Zero) }

NoEuler == [pitch |-> AngleZero, yaw |-> AngleZero, roll |-> AngleZero]

\* every quaternion variable as default-constructed
QuatIdle(a, b, e, k, r) ==
    a = QuatDefault /\ b = QuatDefault /\ e = NoEuler /\ k = "default" /\ r = NoCall

QuatFromEuler ==
    /\ qsrc = "angles"
    /\ qa' = QFromEulerAngles(euler.pitch, euler.yaw, euler.roll)
    /\ qb' = qa'
    /\ qsrc' = "euler"
    /\ qres' = NoCall
    /\ UNCHANGED euler
    /\ UNCHANGED <<matVars, geoVars, vecVars, rayVars, rectVars>>

QuatToEuler ==
    /\ qres' = Call("toEulerAngles", qa, Ok(QToEulerAngles(qa)))
    /\ UNCHANGED <<qa, qb, euler, qsrc>>
    /\ UNCHANGED <<matVars, geoVars, vecVars, rayVars, rectVars>>

QuatInverse ==
    /\ qres' = Call("inverse", qa, QInverse(qa))
    /\ UNCHANGED <<qa, qb, euler, qsrc>>
    /\ UNCHANGED <<matVars, geoVars, vecVars, rayVars, rectVars>>

QuatConjugate ==
    /\ qres' = Call("conjugate", qa, Ok(QConjugate(qa)))
    /\ UNCHANGED <<qa, qb, euler, qsrc>>
    /\ UNCHANGED <<matVars, geoVars, vecVars, rayVars, rectVars>>

QuatMultiply ==
    /\ qres' = Call("multiply", <<qa, qb>>, Ok(QMul(qa, qb)))
    /\ UNCHANGED <<qa, qb, euler, qsrc>>
    /\ UNCHANGED <<matVars, geoVars, vecVars, rayVars, rectVars>>

QuatSlerp ==
    \E t \in SampleTs :
        /\ qres' = Call("slerp", <<qa, qb, t>>, QSlerp(qa, qb, t))
        /\ UNCHANGED <<qa, qb, euler, qsrc>>
        /\ UNCHANGED <<matVars, geoVars, vecVars, rayVars, rectVars>>

\* vectors handed to Quaternion::operator*(const Vector3&)
SampleRotated == { IVec3(1, 0, 0), IVec3(1, 2, 3), IVec3(0, -1, 2), IVec3(0, 0, 0) }

\* qa * v
QuatRotate ==
    \E v \in SampleRotated :
        /\ qres' = Call("rotate", <<qa, v>>, Ok(QRotate(qa, v)))
        /\ UNCHANGED <<qa, qb, euler, qsrc>>
        /\ UNCHANGED <<matVars, geoVars, vecVars, rayVars, rectVars>>

\* (qa * qb) * v
QuatRotateByProduct ==
    \E v \in SampleRotated :
        /\ qres' = Call("rotate by product", <<qa, qb, v>>, Ok(QRotate(QMul(qa, qb), v)))
        /\ UNCHANGED <<qa, qb, euler, qsrc>>
        /\ UNCHANGED <<matVars, geoVars, vecVars, rayVars, rectVars>>

QuatNext ==
    \/ QuatFromEuler
    \/ QuatToEuler
    \/ QuatInverse
    \/ QuatConjugate
    \/ QuatMultiply
    \/ QuatSlerp
    \/ QuatRotate
    \/ QuatRotateByProduct

(***************************************************************************)
(* Geometry: Ray, AABB                                                     *)
(***************************************************************************)
MkRay(origin, direction) == [origin |-> origin, direction |-> direction]

\* Ray::Ray(): origin zero(), direction forward()
RayDefault == MkRay(IVec3(0, 0, 0), IVec3(0, 0, 1))

\* mutant of RayFrom: the direction is stored as given
RayFrom_AsGiven(origin, direction) ==
    LET d == V3Normalized("float", direction)
    IN  IF d.status = "ok" THEN Ok(MkRay(origin, direction)) ELSE d

\* Ray::Ray(const Vector3& origin, const Vector3& direction)
RayFrom(origin, direction) ==
    LET d == V3Normalized("float", direction)
    IN  IF d.status = "ok" THEN Ok(MkRay(origin, d.value)) ELSE d

\* Ray::getPoint
RayGetPoint(r, t) == V3Add(r.origin, V3Scale(r.direction, t))

MkAABB(min, max) == [min |-> min, max |-> max]

\* AABB::AABB()
AABBDefault == MkAABB(IVec3(0, 0, 0), IVec3(0, 0, 0))

\* AABB::contains
AABBContains(b, point) ==
    /\ RGe(point.x, b.min.x) /\ RLe(point.x, b.max.x)
    /\ RGe(point.y, b.min.y) /\ RLe(point.y, b.max.y)
    /\ RGe(point.z, b.min.z) /\ RLe(point.z, b.max.z)

\* std::numeric_limits<T>::infinity() and its negation, as the extended
\* rationals 1/0 and -1/0 (RLt, RMax and RMin order them against finite values)
PosInf == <<1, 0>>

NegInf == <<-1, 0>>

\* mutant of AABBSlab: t1 and t2 are not swapped when t1 > t2
RECURSIVE AABBSlab_NoSwap(_, _, _, _, _)
AABBSlab_NoSwap(b, r, i, lo, hi) ==
    IF i = 3 THEN [status |-> "ok", hit |-> TRUE, tMin |-> lo, tMax |-> hi]
    ELSE IF i < 0 \/ i > 2
    THEN [status |-> "out_of_range", hit |-> FALSE, tMin |-> lo, tMax |-> hi]
    ELSE LET d  == VIdx(r.direction, i)
             o  == VIdx(r.origin, i)
             mn == VIdx(b.min, i)
             mx == VIdx(b.max, i)
         IN  IF BelowEps("float", RAbs(d))
             THEN IF RLt(o, mn) \/ RGt(o, mx)
                  THEN [status |-> "ok", hit |-> FALSE, tMin |-> lo, tMax |-> hi]
                  ELSE AABBSlab_NoSwap(b, r, i + 1, lo, hi)
             ELSE LET t1  == RDiv(RSub(mn, o), d)
                      t2  == RDiv(RSub(mx, o), d)
                      nlo == RMax(lo, t1)
                      nhi == RMin(hi, t2)
                  IN  IF RGt(nlo, nhi)
                      THEN [status |-> "ok", hit |-> FALSE, tMin |-> nlo, tMax |-> nhi]
                      ELSE AABBSlab_NoSwap(b, r, i + 1, nlo, nhi)

\* mutant of AABBSlab: the loop runs for i = 0 .. 3
RECURSIVE AABBSlab_OneAxisMore(_, _, _, _, _)
AABBSlab_OneAxisMore(b, r, i, lo, hi) ==
    IF i = 4 THEN [status |-> "ok", hit |-> TRUE, tMin |-> lo, tMax |-> hi]
    ELSE IF i < 0 \/ i > 2
    THEN [status |-> "out_of_range", hit |-> FALSE, tMin |-> lo, tMax |-> hi]
    ELSE LET d  == VIdx(r.direction, i)
             o  == VIdx(r.origin, i)
             mn == VIdx(b.min, i)
             mx == VIdx(b.max, i)
         IN  IF BelowEps("float", RAbs(d))
             THEN IF RLt(o, mn) \/ RGt(o, mx)
                  THEN [status |-> "ok", hit |-> FALSE, tMin |-> lo, tMax |-> hi]
                  ELSE AABBSlab_OneAxisMore(b, r, i + 1, lo, hi)
             ELSE LET u1  == RDiv(RSub(mn, o), d)
                      u2  == RDiv(RSub(mx, o), d)
                      t1  == IF RGt(u1, u2) THEN u2 ELSE u1
                      t2  == IF RGt(u1, u2) THEN u1 ELSE u2
                      nlo == RMax(lo, t1)
                      nhi == RMin(hi, t2)
                  IN  IF RGt(nlo, nhi)
                      THEN [status |-> "ok", hit |-> FALSE, tMin |-> nlo, tMax |-> nhi]
                      ELSE AABBSlab_OneAxisMore(b, r, i + 1, nlo, nhi)

\* AABB::intersects, the loop from axis i on with tMin = lo and tMax = hi:
\* the value returned and the two output parameters; status is the exception
\* of Vector3::operator[] for an index outside 0 .. 2
RECURSIVE AABBSlab(_, _, _, _, _)
AABBSlab(b, r, i, lo, hi) ==
    IF i = 3 THEN [status |-> "ok", hit |-> TRUE, tMin |-> lo, tMax |-> hi]
    ELSE IF i < 0 \/ i > 2
    THEN [status |-> "out_of_range", hit |-> FALSE, tMin |-> lo, tMax |-> hi]
    ELSE LET d  == VIdx(r.direction, i)
             o  == VIdx(r.origin, i)
             mn == VIdx(b.min, i)
             mx == VIdx(b.max, i)
         IN  IF BelowEps("float", RAbs(d))
             THEN IF RLt(o, mn) \/ RGt(o, mx)
                  THEN [status |-> "ok", hit |-> FALSE, tMin |-> lo, tMax |-> hi]
                  ELSE AABBSlab(b, r, i + 1, lo, hi)
             ELSE LET u1  == RDiv(RSub(mn, o), d)
                      u2  == RDiv(RSub(mx, o), d)
                      t1  == IF RGt(u1, u2) THEN u2 ELSE u1
                      t2  == IF RGt(u1, u2) THEN u1 ELSE u2
                      nlo == RMax(lo, t1)
                      nhi == RMin(hi, t2)
                  IN  IF RGt(nlo, nhi)
                      THEN [status |-> "ok", hit |-> FALSE, tMin |-> nlo, tMax |-> nhi]
                      ELSE AABBSlab(b, r, i + 1, nlo, nhi)

\* AABB::intersects(const Ray&, T& tMin, T& tMax)
AABBIntersects(b, r) == AABBSlab(b, r, 0, NegInf, PosInf)

(***************************************************************************)
(* Geometry: Plane, Frustum, Transform                                     *)
(***************************************************************************)
MkPlane(normal, distance) == [normal |-> normal, distance |-> distance]

\* Plane::Plane(): normal up(), distance 0
PlaneDefault == MkPlane(IVec3(0, 1, 0), Zero)

\* Plane::Plane(const Vector3&, T distance) noexcept
PlaneFromDistance(normal, distance) ==
    LET n == V3Normalized("float", normal)
    IN  NoExcept(IF n.status = "ok" THEN Ok(MkPlane(n.value, distance)) ELSE n)

\* Plane::Plane(const Vector3& normal, const Vector3& point) noexcept: in the
\* initialiser of distance the name normal is the constructor's parameter
PlaneFromPoint(normal, point) ==
    LET n == V3Normalized("float", normal)
    IN  NoExcept(IF n.status = "ok"
                 THEN Ok(MkPlane(n.value, RNeg(V3Dot(normal, point))))
                 ELSE n)

\* Plane::distanceToPoint
PlaneDistanceToPoint(p, point) == RAdd(V3Dot(p.normal, point), p.distance)

PlaneIdx == 0 .. 5

\* Frustum() = default: six default-constructed planes
FrustumDefault == [k \in PlaneIdx |-> PlaneDefault]

\* updatePlanes, first loop: planes[k].normal[i] = +-vp(i, c) + vp(i, 3)
FrustumRawNormal(m, k) ==
    LET c == CASE k \in {0, 1} -> 2 [] k \in {2, 3} -> 0 [] k \in {4, 5} -> 1
        e(i) == IF k % 2 = 0 THEN RAdd(m[i][c], m[i][3])
                             ELSE RAdd(RNeg(m[i][c]), m[i][3])
    IN  Vec3(e(0), e(1), e(2))

\* mutant of FrustumWritten: the distance is not assigned
FrustumWritten_KeepDistance(p, m, k) ==
    [p EXCEPT !.normal = FrustumRawNormal(m, k)]

\* updatePlanes: planes[k], held as p, after the assignments to its normal
\* (first loop) and to its distance (second loop)
FrustumWritten(p, m, k) ==
    [p EXCEPT !.normal = FrustumRawNormal(m, k),
              !.distance = RSub(m[3][3], m[3][k \div 2])]

\* updatePlanes, second loop, one iteration on planes[k] held as p: the
\* plane, or the exception of Vector3::operator/=
FrustumPlaneOn(p, m, k) ==
    LET w      == FrustumWritten(p, m, k)
        length == V3Length("float", w.normal)
        scaled == V3Div("float", w.normal, length)
    IN  IF scaled.status = "ok"
        THEN Ok(MkPlane(scaled.value, RDiv(w.distance, length)))
        ELSE scaled

\* Frustum::updatePlanes(const Matrix4x4&) noexcept on the planes f: the six
\* planes after it
FrustumUpdatePlanesOn(f, m) ==
    IF \A k \in PlaneIdx : FrustumPlaneOn(f[k], m, k).status = "ok"
    THEN Ok([k \in PlaneIdx |-> FrustumPlaneOn(f[k], m, k).value])
    ELSE NoExcept(FrustumPlaneOn(f[0], m,
                      CHOOSE k \in PlaneIdx : FrustumPlaneOn(f[k], m, k).status # "ok"))

\* planes[k] of Frustum(viewProjection)
FrustumPlane(m, k) == FrustumPlaneOn(PlaneDefault, m, k)

\* Frustum::Frustum(const Matrix4x4&): updatePlanes on six default planes
FrustumUpdatePlanes(m) == FrustumUpdatePlanesOn(FrustumDefault, m)

\* Frustum::contains
FrustumContains(f, point) ==
    \A k \in PlaneIdx : ~RLt(PlaneDistanceToPoint(f[k], point), Zero)

\* mutant of PositiveVertex: the corner nearest along the normal
PositiveVertex_Nearest(p, b) ==
    Vec3(IF RGe(p.normal.x, Zero) THEN b.min.x ELSE b.max.x,
         IF RGe(p.normal.y, Zero) THEN b.min.y ELSE b.max.y,
         IF RGe(p.normal.z, Zero) THEN b.min.z ELSE b.max.z)

\* Frustum::intersects: the corner of the box furthest along the plane's normal
PositiveVertex(p, b) ==
    Vec3(IF RGe(p.normal.x, Zero) THEN b.max.x ELSE b.min.x,
         IF RGe(p.normal.y, Zero) THEN b.max.y ELSE b.min.y,
         IF RGe(p.normal.z, Zero) THEN b.max.z ELSE b.min.z)

\* Frustum::intersects(const AABB&)
FrustumIntersects(f, b) ==
    \A k \in PlaneIdx : ~RLt(PlaneDistanceToPoint(f[k], PositiveVertex(f[k], b)), Zero)

MkTransform(position, rotation, scale) ==
    [position |-> position, rotation |-> rotation, scale |-> scale]

\* Transform::Transform()
TransformDefault == MkTransform(IVec3(0, 0, 0), QuatDefault, IVec3(1, 1, 1))

\* Transform::toMatrix
TransformToMatrix(t) ==
    MatMul(MatMul(MatTranslation(t.position), QToRotationMatrix(t.rotation)),
           MatScaling(t.scale))

\* mutant of TransformPoint: the scale is applied after the rotation
TransformPoint_ScaleLast(t, point) ==
    V3Add(V3MulVec(QRotate(t.rotation, point), t.scale), t.position)

\* Transform::transformPoint
TransformPoint(t, point) ==
    V3Add(QRotate(t.rotation, V3MulVec(point, t.scale)), t.position)

\* Transform::transformDirection
TransformDirection(t, direction) == QRotate(t.rotation, direction)

\* Transform::interpolate(const Transform&, T) const noexcept
TransformInterpolate(a, b, t) ==
    LET rotation == QSlerp(a.rotation, b.rotation, t)
    IN  NoExcept(IF rotation.status = "ok"
                 THEN Ok(MkTransform(V3Lerp(a.position, b.position, t),
                                     rotation.value,
                                     V3Lerp(a.scale, b.scale, t)))
                 ELSE rotation)

(***************************************************************************)
(* Geometry: Sphere and the ray queries of Sphere and Plane                *)
(***************************************************************************)
MkSphere(center, radius) == [center |-> center, radius |-> radius]

\* Sphere::Sphere(): center zero(), radius 1
SphereDefault == MkSphere(IVec3(0, 0, 0), One)

\* Sphere::contains
SphereContains(s, point) ==
    RLe(V3LengthSquared(V3Sub(point, s.center)), RMul(s.radius, s.radius))

\* mutant of SphereIntersects: the far root -b + sqrt(discriminant) is reported
SphereIntersects_FarRoot(s, r, t0) ==
    LET m == V3Sub(r.origin, s.center)
        b == V3Dot(m, r.direction)
        c == RSub(V3Dot(m, m), RMul(s.radius, s.radius))
        discriminant == RSub(RMul(b, b), c)
        far == RAdd(RNeg(b), Sqrt(discriminant))
    IN  IF RGt(c, Zero) /\ RGt(b, Zero) THEN [hit |-> FALSE, t |-> t0]
        ELSE IF RLt(discriminant, Zero) THEN [hit |-> FALSE, t |-> t0]
        ELSE [hit |-> TRUE, t |-> IF RLt(far, Zero) THEN Zero ELSE far]

\* Sphere::intersects(const Ray&, T& t): the value returned and the output
\* parameter, t0 being the caller's value of t before the call
SphereIntersects(s, r, t0) ==
    LET m == V3Sub(r.origin, s.center)
        b == V3Dot(m, r.direction)
        c == RSub(V3Dot(m, m), RMul(s.radius, s.radius))
        discriminant == RSub(RMul(b, b), c)
        near == RSub(RNeg(b), Sqrt(discriminant))
    IN  IF RGt(c, Zero) /\ RGt(b, Zero) THEN [hit |-> FALSE, t |-> t0]
        ELSE IF RLt(discriminant, Zero) THEN [hit |-> FALSE, t |-> t0]
        ELSE [hit |-> TRUE, t |-> IF RLt(near, Zero) THEN Zero ELSE near]

\* mutant of PlaneIntersects: the parallel test compares denom with exactly zero
PlaneIntersects_ExactParallel(p, r, t0) ==
    LET denom == V3Dot(p.normal, r.direction)
    IN  IF denom = Zero THEN [hit |-> FALSE, t |-> t0]
        ELSE LET t == RDiv(RNeg(RAdd(V3Dot(p.normal, r.origin), p.distance)), denom)
             IN  [hit |-> RGe(t, Zero), t |-> t]

\* mutant of PlaneIntersects: t is assigned only when the hit is reported
PlaneIntersects_WriteOnHit(p, r, t0) ==
    LET denom == V3Dot(p.normal, r.direction)
    IN  IF BelowEps("float", RAbs(denom)) THEN [hit |-> FALSE, t |-> t0]
        ELSE LET t == RDiv(RNeg(RAdd(V3Dot(p.normal, r.origin), p.distance)), denom)
             IN  [hit |-> RGe(t, Zero), t |-> IF RGe(t, Zero) THEN t ELSE t0]

\* Plane::intersects(const Ray&, T& t): the value returned and the output
\* parameter, t0 being the caller's value of t before the call
PlaneIntersects(p, r, t0) ==
    LET denom == V3Dot(p.normal, r.direction)
    IN  IF BelowEps("float", RAbs(denom)) THEN [hit |-> FALSE, t |-> t0]
        ELSE LET t == RDiv(RNeg(RAdd(V3Dot(p.normal, r.origin), p.distance)), denom)
             IN  [hit |-> RGe(t, Zero), t |-> t]

(***************************************************************************)
(* Geometry: inputs and operations                                         *)
(***************************************************************************)
\* normals handed to the Plane constructors: unit, non-unit and zero
SampleNormals ==
    { IVec3(0, 1, 0), IVec3(0, 2, 0), IVec3(0, 0, -1), IVec3(3, 4, 0), IVec3(1, 2, 2),
      Vec3(Zero, <<1, 2>>, Zero), IVec3(0, 0, 0) }

\* points handed to Plane(normal, point) and distanceToPoint
SamplePlanePoints == { IVec3(0, 0, 0), IVec3(0, 1, 0), IVec3(1, 2, 3), IVec3(-1, 0, 2) }

\* distances handed to Plane(normal, distance)
SampleDistances == { Zero, I(-1), Two }

\* affine view-projection matrices: bottom row (0, 0, 0, 1)
SampleViewProjections ==
    { MatIdentity,
      MatOrthographic(I(-1), I(1), I(-1), I(1), I(-1), I(1)),
      MatOrthographic(I(-2), I(2), I(-2), I(2), I(-2), I(2)),
      MatOrthographic(I(-2), I(2), I(-1), I(1), I(1), I(3)),
      MatOrthographic(I(0), I(4), I(-1), I(1), I(-1), I(1)),
      MatOrthographic(I(0), I(2), I(-1), I(1), I(-1), I(1)),
      MatScaling(IVec3(2, 2, 2)),
      MatTranslation(IVec3(1, 0, 0)) }

\* view-projection matrices handed to a sequence of updatePlanes calls: the
\* plane normals they give have rational lengths, or the length 0
SampleFrustumMatrices ==
    { MatIdentity,
      MatOrthographic(I(-1), I(1), I(-1), I(1), I(-1), I(1)),
      MatOrthographic(I(-2), I(2), I(-2), I(2), I(-2), I(2)),
      MatScaling(IVec3(2, 3, 4)),
      MatScaling(IVec3(2, 2, 2)),
      MatScaling(IVec3(-1, 1, 5)),
      MatOrthographic(I(-4), I(4), I(-1), I(1), I(-2), I(2)),
      MatTranslation(IVec3(1, 0, 0)) }

\* points handed to Frustum::contains
SampleFrustumPoints ==
    { IVec3(x, 0, 0) : x \in {-2, 0, 1, 3, 5} }
        \cup { IVec3(0, 2, 0), IVec3(0, 1, 1), IVec3(0, 0, -2), IVec3(1, -1, 1) }

\* the closed clip cube [-1, 1]^3
InClipCube(c) ==
    /\ RLe(I(-1), c.x) /\ RLe(c.x, One)
    /\ RLe(I(-1), c.y) /\ RLe(c.y, One)
    /\ RLe(I(-1), c.z) /\ RLe(c.z, One)

\* the two ends of an interpolation
SampleTransformPairs ==
    { <<TransformDefault, TransformDefault>>,
      <<TransformDefault, MkTransform(IVec3(2, 4, 6), IQuat(0, 1, 0, 0), IVec3(3, 3, 3))>>,
      <<MkTransform(IVec3(1, 0, 0), Quat(<<3, 5>>, <<4, 5>>, Zero, Zero), IVec3(1, 1, 1)),
        MkTransform(IVec3(0, 2, 0), Quat(<<7, 25>>, <<24, 25>>, Zero, Zero), IVec3(2, 2, 2))>>,
      <<MkTransform(IVec3(1, 2, 3), Quat(<<1, 2>>, <<1, 2>>, <<1, 2>>, <<1, 2>>), IVec3(2, 3, 5)),
        MkTransform(IVec3(0, 0, 0), Quat(<<1, 2>>, <<1, 2>>, <<1, 2>>, <<1, 2>>), IVec3(1, 1, 1))>>,
      <<MkTransform(IVec3(-1, 0, 2), Quat(<<2, 3>>, <<-2, 3>>, <<1, 3>>, Zero), IVec3(1, 2, -1)),
        MkTransform(IVec3(-1, 0, 2), Quat(<<2, 3>>, <<-2, 3>>, <<1, 3>>, Zero), IVec3(1, 2, -1))>>,
      <<MkTransform(IVec3(0, 0, 0), IQuat(1, 0, 0, 0), IVec3(1, 1, 1)),
        MkTransform(IVec3(0, 0, 0), IQuat(-1, 0, 0, 0), IVec3(1, 1, 1))>>,
      <<MkTransform(IVec3(0, 0, 0), IQuat(1, 0, 0, 0), IVec3(1, 1, 1)),
        MkTransform(IVec3(1, 1, 1), IQuat(2, 0, 0, 0), IVec3(1, 1, 1))>>,
      <<MkTransform(IVec3(0, 0, 0), IQuat(0, 0, 0, 0), IVec3(1, 1, 1)),
        MkTransform(IVec3(1, 1, 1), IQuat(0, 0, 0, 0), IVec3(1, 1, 1))>> }

\* boxes handed to Frustum::intersects
SampleFrustumBoxes ==
    { MkAABB(Vec3(<<-1, 2>>, <<-1, 2>>, <<-1, 2>>), Vec3(<<1, 2>>, <<1, 2>>, <<1, 2>>)),
      MkAABB(IVec3(2, 2, 2), IVec3(3, 3, 3)),
      MkAABB(IVec3(-3, -3, -3), IVec3(3, 3, 3)),
      MkAABB(Vec3(<<1, 2>>, <<1, 2>>, <<1, 2>>), IVec3(2, 2, 2)),
      MkAABB(IVec3(-4, -1, 0), IVec3(-3, 0, 0)),
      MkAABB(IVec3(0, -5, -5), IVec3(0, -2, 5)) }

\* the corners of a box and its centre
BoxPoints(b) ==
    { Vec3(x, y, z) : x \in { b.min.x, b.max.x }, y \in { b.min.y, b.max.y },
                      z \in { b.min.z, b.max.z } }
        \cup { V3Scale(V3Add(b.min, b.max), <<1, 2>>) }

\* every geometry variable as default-constructed
GeoIdle(n, q, p, m, f, a, b, r) ==
    /\ n = IVec3(0, 1, 0) /\ q = IVec3(0, 0, 0) /\ p = PlaneDefault
    /\ m = MatDefault /\ f = FrustumDefault
    /\ a = TransformDefault /\ b = TransformDefault
    /\ r = NoCall

\* the program is still running
Running == gres.status # "terminate"

GeoPlaneFromDistance ==
    \E d \in SampleDistances :
        LET r == PlaneFromDistance(pn, d)
        IN  /\ Running
            /\ plane' = IF r.status = "ok" THEN r.value ELSE plane
            /\ gres' = Call("Plane(normal, distance)", <<pn, d>>, r)
            /\ UNCHANGED <<pn, pq, vp, frustum, ta, tb>>
            /\ UNCHANGED <<matVars, quatVars, vecVars, rayVars, rectVars>>

GeoPlaneFromPoint ==
    LET r == PlaneFromPoint(pn, pq)
    IN  /\ Running
        /\ plane' = IF r.status = "ok" THEN r.value ELSE plane
        /\ gres' = Call("Plane(normal, point)", <<pn, pq>>, r)
        /\ UNCHANGED <<pn, pq, vp, frustum, ta, tb>>
        /\ UNCHANGED <<matVars, quatVars, vecVars, rayVars, rectVars>>

GeoDistanceToPoint ==
    \E p \in SamplePlanePoints :
        /\ Running
        /\ gres' = Call("distanceToPoint", <<plane, p>>, Ok(PlaneDistanceToPoint(plane, p)))
        /\ UNCHANGED <<pn, pq, plane, vp, frustum, ta, tb>>
        /\ UNCHANGED <<matVars, quatVars, vecVars, rayVars, rectVars>>

GeoUpdatePlanes ==
    LET r == FrustumUpdatePlanesOn(frustum, vp)
    IN  /\ Running
        /\ frustum' = IF r.status = "ok" THEN r.value ELSE frustum
        /\ gres' = Call("updatePlanes", <<frustum, vp>>, r)
        /\ UNCHANGED <<pn, pq, plane, vp, ta, tb>>
        /\ UNCHANGED <<matVars, quatVars, vecVars, rayVars, rectVars>>

\* updatePlanes with another matrix than the one passed before
GeoUpdatePlanesWith ==
    \E m \in SampleFrustumMatrices :
        LET r == FrustumUpdatePlanesOn(frustum, m)
        IN  /\ Running
            /\ vp' = m
            /\ frustum' = IF r.status = "ok" THEN r.value ELSE frustum
            /\ gres' = Call("updatePlanes", <<frustum, m>>, r)
            /\ UNCHANGED <<pn, pq, plane, ta, tb>>
            /\ UNCHANGED <<matVars, quatVars, vecVars, rayVars, rectVars>>

GeoContains ==
    \E p \in SampleFrustumPoints :
        /\ Running
        /\ gres' = Call("contains", <<frustum, p>>, Ok(FrustumContains(frustum, p)))
        /\ UNCHANGED <<pn, pq, plane, vp, frustum, ta, tb>>
        /\ UNCHANGED <<matVars, quatVars, vecVars, rayVars, rectVars>>

GeoInterpolate ==
    \E t \in SampleTs :
        /\ Running
        /\ gres' = Call("interpolate", <<ta, tb, t>>, TransformInterpolate(ta, tb, t))
        /\ UNCHANGED <<pn, pq, plane, vp, frustum, ta, tb>>
        /\ UNCHANGED <<matVars, quatVars, vecVars, rayVars, rectVars>>

GeoIntersects ==
    \E b \in SampleFrustumBoxes :
        /\ Running
        /\ gres' = Call("intersects", <<frustum, b>>, Ok(FrustumIntersects(frustum, b)))
        /\ UNCHANGED <<pn, pq, plane, vp, frustum, ta, tb>>
        /\ UNCHANGED <<matVars, quatVars, vecVars, rayVars, rectVars>>

GeoToMatrix ==
    /\ Running
    /\ gres' = Call("toMatrix", ta, Ok(TransformToMatrix(ta)))
    /\ UNCHANGED <<pn, pq, plane, vp, frustum, ta, tb>>
    /\ UNCHANGED <<matVars, quatVars, vecVars, rayVars, rectVars>>

GeoTransformPoint ==
    \E p \in SamplePlanePoints :
        /\ Running
        /\ gres' = Call("transformPoint", <<ta, p>>, Ok(TransformPoint(ta, p)))
        /\ UNCHANGED <<pn, pq, plane, vp, frustum, ta, tb>>
        /\ UNCHANGED <<matVars, quatVars, vecVars, rayVars, rectVars>>

GeoTransformDirection ==
    \E d \in SamplePlanePoints :
        /\ Running
        /\ gres' = Call("transformDirection", <<ta, d>>, Ok(TransformDirection(ta, d)))
        /\ UNCHANGED <<pn, pq, plane, vp, frustum, ta, tb>>
        /\ UNCHANGED <<matVars, quatVars, vecVars, rayVars, rectVars>>

GeoNext ==
    \/ GeoPlaneFromDistance
    \/ GeoPlaneFromPoint
    \/ GeoDistanceToPoint
    \/ GeoUpdatePlanes
    \/ GeoContains
    \/ GeoInterpolate
    \/ GeoIntersects
    \/ GeoToMatrix
    \/ GeoTransformPoint
    \/ GeoTransformDirection

\* a frustum over a sequence of updatePlanes calls
FrustumNext ==
    \/ GeoUpdatePlanesWith
    \/ GeoContains
    \/ GeoIntersects

(***************************************************************************)
(* Vector2, Vector3: inputs and operations                                 *)
(***************************************************************************)
\* component values per scalar type; Tiny is below the epsilon() of float and
\* Small above it
SampleScalars(T) ==
    IF T = "int" THEN { I(0), I(1), I(-3) } ELSE { Zero, One, Tiny, Small }

\* every vector variable as default-constructed
VecIdle(T, a2, b2, a3, b3, r, n) ==
    /\ T = "float"
    /\ a2 = IVec2(0, 0) /\ b2 = IVec2(0, 0)
    /\ a3 = IVec3(0, 0, 0) /\ b3 = IVec3(0, 0, 0)
    /\ r = NoCall
    /\ n = 0

Vec2Equals ==
    /\ vres' = Call("Vector2::operator==", <<v2a, v2b>>, Ok(V2Eq(vT, v2a, v2b)))
    /\ UNCHANGED <<vT, v2a, v2b, v3a, v3b, vwrites>>
    /\ UNCHANGED <<matVars, quatVars, geoVars, rayVars, rectVars>>

Vec2NotEquals ==
    /\ vres' = Call("Vector2::operator!=", <<v2a, v2b>>, Ok(V2Ne(vT, v2a, v2b)))
    /\ UNCHANGED <<vT, v2a, v2b, v3a, v3b, vwrites>>
    /\ UNCHANGED <<matVars, quatVars, geoVars, rayVars, rectVars>>

Vec3Equals ==
    /\ vres' = Call("Vector3::operator==", <<v3a, v3b>>, Ok(V3Eq(vT, v3a, v3b)))
    /\ UNCHANGED <<vT, v2a, v2b, v3a, v3b, vwrites>>
    /\ UNCHANGED <<matVars, quatVars, geoVars, rayVars, rectVars>>

Vec3NotEquals ==
    /\ vres' = Call("Vector3::operator!=", <<v3a, v3b>>, Ok(V3Ne(vT, v3a, v3b)))
    /\ UNCHANGED <<vT, v2a, v2b, v3a, v3b, vwrites>>
    /\ UNCHANGED <<matVars, quatVars, geoVars, rayVars, rectVars>>

\* in-place operations made on one vector
MaxVecWrites == 1

\* divisors handed to operator/ and operator/=
SampleDivisors(T) ==
    IF T = "int" THEN { I(0), I(1), I(2), I(-3) } ELSE { Zero, Tiny, Small, Two, <<-1, 2>> }

\* vectors handed to normalized() and normalize(): of rational length
SampleVectors2(T) ==
    IF T = "int"
    THEN { IVec2(0, 0), IVec2(3, 4), IVec2(1, 0), IVec2(0, -3) }
    ELSE { IVec2(0, 0), IVec2(3, 4), IVec2(1, 0), IVec2(-5, 12), Vec2(Zero, <<1, 1024>>) }

SampleVectors3(T) ==
    IF T = "int"
    THEN { IVec3(0, 0, 0), IVec3(1, 2, 2), IVec3(0, 1, 0), IVec3(-3, 0, 0) }
    ELSE { IVec3(0, 0, 0), IVec3(1, 2, 2), IVec3(2, -3, 6), IVec3(0, 0, -2),
           Vec3(<<1, 1024>>, Zero, Zero) }

\* the division x / k signals, or the scalars of the model hold its quotient
\* and the differences of the quotient from the sample scalars
Dividable(T, x, k) ==
    IF BelowEps(T, RAbs(k)) \/ k = Zero
    THEN TRUE
    ELSE Abs(x[1]) <= 64 /\ Abs(RDiv(x, k)[1]) <= 256

\* the scalars of the model hold the square of x
Squarable(x) == Abs(x[1]) <= 16384 /\ x[2] <= 16384

\* std::sqrt of lengthSquared() is exact in the scalars of the model
Measurable2(T, v) ==
    /\ Squarable(v.x) /\ Squarable(v.y)
    /\ IF T = "int" THEN TRUE
       ELSE IsSquare(V2LengthSquared(v)[1]) /\ IsSquare(V2LengthSquared(v)[2])

Measurable3(T, v) ==
    /\ Squarable(v.x) /\ Squarable(v.y) /\ Squarable(v.z)
    /\ IF T = "int" THEN TRUE
       ELSE IsSquare(V3LengthSquared(v)[1]) /\ IsSquare(V3LengthSquared(v)[2])

\* what an in-place operation leaves in *this: the result; the old value when
\* it throws; after an integer division by zero (undefined behaviour) any of
\* the old value and the values a build may store
Stored(v, r, garbage) ==
    IF r.status = "ok" THEN { r.value }
    ELSE IF r.status = "undefined" THEN { v } \cup garbage
    ELSE { v }

Vec2Divide ==
    \E s \in SampleDivisors(vT) :
        /\ Dividable(vT, v2a.x, s) /\ Dividable(vT, v2a.y, s)
        /\ vres' = Call("Vector2::operator/", <<v2a, s>>, V2Div(vT, v2a, s))
        /\ UNCHANGED <<vT, v2a, v2b, v3a, v3b, vwrites>>
        /\ UNCHANGED <<matVars, quatVars, geoVars, rayVars, rectVars>>

Vec2DivideAssign ==
    \E s \in SampleDivisors(vT) :
        LET r == V2Div(vT, v2a, s)
        IN  /\ vwrites < MaxVecWrites
            /\ Dividable(vT, v2a.x, s) /\ Dividable(vT, v2a.y, s)
            /\ v2a' \in Stored(v2a, r, { IVec2(0, 0), IVec2(-1, -1) })
            /\ vwrites' = vwrites + 1
            /\ vres' = Call("Vector2::operator/=", <<v2a, s>>, r)
            /\ UNCHANGED <<vT, v2b, v3a, v3b>>
            /\ UNCHANGED <<matVars, quatVars, geoVars, rayVars, rectVars>>

Vec3Divide ==
    \E s \in SampleDivisors(vT) :
        /\ Dividable(vT, v3a.x, s) /\ Dividable(vT, v3a.y, s) /\ Dividable(vT, v3a.z, s)
        /\ vres' = Call("Vector3::operator/", <<v3a, s>>, V3Div(vT, v3a, s))
        /\ UNCHANGED <<vT, v2a, v2b, v3a, v3b, vwrites>>
        /\ UNCHANGED <<matVars, quatVars, geoVars, rayVars, rectVars>>

Vec3DivideAssign ==
    \E s \in SampleDivisors(vT) :
        LET r == V3Div(vT, v3a, s)
        IN  /\ vwrites < MaxVecWrites
            /\ Dividable(vT, v3a.x, s) /\ Dividable(vT, v3a.y, s) /\ Dividable(vT, v3a.z, s)
            /\ v3a' \in Stored(v3a, r, { IVec3(0, 0, 0), IVec3(-1, -1, -1) })
            /\ vwrites' = vwrites + 1
            /\ vres' = Call("Vector3::operator/=", <<v3a, s>>, r)
            /\ UNCHANGED <<vT, v2a, v2b, v3b>>
            /\ UNCHANGED <<matVars, quatVars, geoVars, rayVars, rectVars>>

Vec2Normalized ==
    /\ Measurable2(vT, v2a)
    /\ vres' = Call("Vector2::normalized", <<v2a>>, V2Normalized(vT, v2a))
    /\ UNCHANGED <<vT, v2a, v2b, v3a, v3b, vwrites>>
    /\ UNCHANGED <<matVars, quatVars, geoVars, rayVars, rectVars>>

Vec2Normalize ==
    LET r == V2Normalized(vT, v2a)
    IN  /\ vwrites < MaxVecWrites
        /\ Measurable2(vT, v2a)
        /\ v2a' \in Stored(v2a, r, { IVec2(0, 0), IVec2(-1, -1) })
        /\ vwrites' = vwrites + 1
        /\ vres' = Call("Vector2::normalize", <<v2a>>, r)
        /\ UNCHANGED <<vT, v2b, v3a, v3b>>
        /\ UNCHANGED <<matVars, quatVars, geoVars, rayVars, rectVars>>

Vec3Normalized ==
    /\ Measurable3(vT, v3a)
    /\ vres' = Call("Vector3::normalized", <<v3a>>, V3Normalized(vT, v3a))
    /\ UNCHANGED <<vT, v2a, v2b, v3a, v3b, vwrites>>
    /\ UNCHANGED <<matVars, quatVars, geoVars, rayVars, rectVars>>

Vec3Normalize ==
    LET r == V3Normalized(vT, v3a)
    IN  /\ vwrites < MaxVecWrites
        /\ Measurable3(vT, v3a)
        /\ v3a' \in Stored(v3a, r, { IVec3(0, 0, 0), IVec3(-1, -1, -1) })
        /\ vwrites' = vwrites + 1
        /\ vres' = Call("Vector3::normalize", <<v3a>>, r)
        /\ UNCHANGED <<vT, v2a, v2b, v3b>>
        /\ UNCHANGED <<matVars, quatVars, geoVars, rayVars, rectVars>>

VecNext ==
    \/ Vec2Equals
    \/ Vec2NotEquals
    \/ Vec3Equals
    \/ Vec3NotEquals
    \/ Vec2Divide
    \/ Vec2DivideAssign
    \/ Vec3Divide
    \/ Vec3DivideAssign
    \/ Vec2Normalized
    \/ Vec2Normalize
    \/ Vec3Normalized
    \/ Vec3Normalize

\* unit vectors handed to Vector3::slerp: the sines of the angles between
\* them are rational
UnitVectors ==
    { IVec3(1, 0, 0), IVec3(-1, 0, 0), IVec3(0, 1, 0), IVec3(0, 0, 1),
      Vec3(<<3, 5>>, <<4, 5>>, Zero), Vec3(<<-3, 5>>, <<-4, 5>>, Zero),
      Vec3(<<4, 5>>, <<3, 5>>, Zero) }

\* interpolation parameters in [0, 1]
SlerpParameters == { Zero, <<1, 2>>, One }

Vec3Slerp ==
    \E t \in SlerpParameters :
        /\ vres' = Call("Vector3::slerp", <<v3a, v3b, t>>, V3Slerp(vT, v3a, v3b, t))
        /\ UNCHANGED <<vT, v2a, v2b, v3a, v3b, vwrites>>
        /\ UNCHANGED <<matVars, quatVars, geoVars, rayVars, rectVars>>

Vec3Lerp ==
    \E t \in SlerpParameters :
        /\ vres' = Call("Vector3::lerp", <<v3a, v3b, t>>,
                         Ok(V3Add(v3a, V3Scale(V3Sub(v3b, v3a), t))))
        /\ UNCHANGED <<vT, v2a, v2b, v3a, v3b, vwrites>>
        /\ UNCHANGED <<matVars, quatVars, geoVars, rayVars, rectVars>>

\* the interpolations of Vector3
SlerpNext ==
    \/ Vec3Slerp
    \/ Vec3Lerp

(***************************************************************************)
(* Ray queries: inputs and operations                                      *)
(***************************************************************************)
\* the value of the caller's output variables before any query
TUnset == I(-7)

SampleOrigins ==
    { IVec3(-5, 0, 0), IVec3(0, 0, 0), IVec3(-5, 1, 0), IVec3(0, 5, 0),
      IVec3(0, 0, -5), IVec3(3, 3, 3) }

\* directions handed to Ray(origin, direction): rational lengths
SampleDirections ==
    { IVec3(1, 0, 0), IVec3(-1, 0, 0), IVec3(0, -1, 0), IVec3(0, 1, 0), IVec3(0, 0, 1),
      IVec3(3, 4, 0), IVec3(-2, -2, -1) }

\* rays built by the constructor
CtorRays == { RayFrom(o, d).value : o \in SampleOrigins, d \in SampleDirections }

\* rays whose public direction member was set to zero after construction
ZeroRays == { MkRay(o, IVec3(0, 0, 0)) : o \in { IVec3(0, 0, 0), IVec3(-5, 0, 0) } }

\* rays built by the constructor, and rays whose public direction member
\* holds a component below epsilon(): (1, 2^-24, 0) is also what the
\* constructor stores for that argument, its float length being 1
SampleRays ==
    CtorRays
        \cup { MkRay(o, Vec3(One, y, Zero)) :
                  o \in { IVec3(-5, 1, 0), Vec3(I(-5), RAdd(One, Small), Zero) },
                  y \in { Tiny, RNeg(Tiny) } }
        \cup ZeroRays

\* every direction component is exactly zero or not below epsilon()
Resolved(r) ==
    \A i \in 0 .. 2 :
        VIdx(r.direction, i) = Zero \/ ~BelowEps("float", RAbs(VIdx(r.direction, i)))

SampleSpheres ==
    { SphereDefault, MkSphere(IVec3(0, 0, 0), I(4)), MkSphere(IVec3(-1, 2, 0), Two),
      MkSphere(IVec3(-5, 4, 0), I(3)) }

\* planes built by Plane(normal, distance)
SamplePlanes ==
    { PlaneFromDistance(n, d).value :
          n \in { IVec3(0, 1, 0), IVec3(1, 0, 0), IVec3(3, 4, 0), IVec3(0, 0, -2) },
          d \in { Zero, I(-2), One } }

SampleBoxes ==
    { MkAABB(IVec3(-1, -1, -1), IVec3(1, 1, 1)),
      MkAABB(IVec3(0, 0, 0), IVec3(2, 3, 4)),
      MkAABB(IVec3(-2, 0, -1), IVec3(2, 0, 1)) }

\* every variable of the ray queries as default-constructed
RayIdle(r, b, s, lo, hi, t, q) ==
    /\ r = RayDefault /\ b = AABBDefault /\ s = SphereDefault
    /\ lo = TUnset /\ hi = TUnset /\ t = TUnset
    /\ q = NoCall

\* points handed to AABB::contains and Sphere::contains
SampleQueryPoints ==
    { IVec3(0, 0, 0), IVec3(1, 1, 1), IVec3(-5, 0, 0), IVec3(0, 2, 0) }

\* no query has ended the program
RayRunning == rres.status # "terminate"

RayAABBIntersects ==
    LET v == AABBIntersects(box, ray)
    IN  /\ RayRunning
        /\ tMin' = v.tMin
        /\ tMax' = v.tMax
        /\ rres' = Call("AABB::intersects", <<box, ray>>,
                         NoExcept(IF v.status = "ok" THEN Ok(v.hit) ELSE Throw(v.status)))
        /\ UNCHANGED <<ray, box, sphere, tHit>>
        /\ UNCHANGED <<matVars, quatVars, geoVars, vecVars, rectVars>>

\* products of components below epsilon() lie outside the scalars of the
\* model: the sphere query is made on the other rays only
RaySphereIntersects ==
    LET v == SphereIntersects(sphere, ray, tHit)
    IN  /\ RayRunning
        /\ Resolved(ray)
        /\ tHit' = v.t
        /\ rres' = Call("Sphere::intersects", <<sphere, ray, tHit>>, Ok(v.hit))
        /\ UNCHANGED <<ray, box, sphere, tMin, tMax>>
        /\ UNCHANGED <<matVars, quatVars, geoVars, vecVars, rectVars>>

RayPlaneIntersects ==
    LET v == PlaneIntersects(plane, ray, tHit)
    IN  /\ RayRunning
        /\ tHit' = v.t
        /\ rres' = Call("Plane::intersects", <<plane, ray, tHit>>, Ok(v.hit))
        /\ UNCHANGED <<ray, box, sphere, tMin, tMax>>
        /\ UNCHANGED <<matVars, quatVars, geoVars, vecVars, rectVars>>

RayAABBContains ==
    \E p \in SampleQueryPoints :
        /\ RayRunning
        /\ rres' = Call("AABB::contains", <<box, p>>, Ok(AABBContains(box, p)))
        /\ UNCHANGED <<ray, box, sphere, tMin, tMax, tHit>>
        /\ UNCHANGED <<matVars, quatVars, geoVars, vecVars, rectVars>>

RaySphereContains ==
    \E p \in SampleQueryPoints :
        /\ RayRunning
        /\ rres' = Call("Sphere::contains", <<sphere, p>>, Ok(SphereContains(sphere, p)))
        /\ UNCHANGED <<ray, box, sphere, tMin, tMax, tHit>>
        /\ UNCHANGED <<matVars, quatVars, geoVars, vecVars, rectVars>>

RayNext ==
    \/ RayAABBIntersects
    \/ RaySphereIntersects
    \/ RayPlaneIntersects

\* directions handed to Ray(origin, direction), the zero vector among them
CtorDirections ==
    SampleDirections \cup { IVec3(0, 0, 0), Vec3(Zero, Zero, <<-1, 1024>>), IVec3(2, -6, 3) }

\* parameters handed to getPoint
SampleParameters == { Zero, One, I(-2), <<5, 2>> }

RayConstruct ==
    \E o \in SampleOrigins, d \in CtorDirections :
        LET r == RayFrom(o, d)
        IN  /\ RayRunning
            /\ ray' = IF r.status = "ok" THEN r.value ELSE ray
            /\ rres' = Call("Ray(origin, direction)", <<o, d>>, r)
            /\ UNCHANGED <<box, sphere, tMin, tMax, tHit>>
            /\ UNCHANGED <<matVars, quatVars, geoVars, vecVars, rectVars>>

RayGetPointAt ==
    \E t \in SampleParameters :
        /\ RayRunning
        /\ rres' = Call("Ray::getPoint", <<ray, t>>, Ok(RayGetPoint(ray, t)))
        /\ UNCHANGED <<ray, box, sphere, tMin, tMax, tHit>>
        /\ UNCHANGED <<matVars, quatVars, geoVars, vecVars, rectVars>>

\* the construction of rays
RayCtorNext ==
    \/ RayConstruct
    \/ RayGetPointAt

\* the queries of AABB, Plane, Sphere and Frustum
QueryNext ==
    \/ RayAABBIntersects
    \/ RayAABBContains
    \/ RayPlaneIntersects
    \/ GeoDistanceToPoint
    \/ RaySphereIntersects
    \/ RaySphereContains
    \/ GeoContains
    \/ GeoIntersects

(***************************************************************************)
(* Rect                                                                    *)
(***************************************************************************)
MkRect(x, y, width, height) == [x |-> x, y |-> y, width |-> width, height |-> height]

\* Rect::Rect()
RectDefault == MkRect(Zero, Zero, Zero, Zero)

\* Rect::right, Rect::bottom
RectRight(r) == RAdd(r.x, r.width)

RectBottom(r) == RAdd(r.y, r.height)

\* Rect::contains(const Vector2&)
RectContainsPoint(r, point) ==
    /\ RGe(point.x, r.x) /\ RLt(point.x, RectRight(r))
    /\ RGe(point.y, r.y) /\ RLt(point.y, RectBottom(r))

\* Rect::intersects(const Rect&)
RectIntersectsRect(a, b) ==
    ~(\/ RLe(RectRight(a), b.x) \/ RLe(RectRight(b), a.x)
      \/ RLe(RectBottom(a), b.y) \/ RLe(RectBottom(b), a.y))

\* mutant of RectIntersectionOf: the result keeps this rectangle's corner
RectIntersectionOf_OwnCorner(a, b) ==
    LET intersectLeft   == RMax(a.x, b.x)
        intersectTop    == RMax(a.y, b.y)
        intersectRight  == RMin(RectRight(a), RectRight(b))
        intersectBottom == RMin(RectBottom(a), RectBottom(b))
    IN  IF RLt(intersectLeft, intersectRight) /\ RLt(intersectTop, intersectBottom)
        THEN MkRect(a.x, a.y, RSub(intersectRight, intersectLeft),
                    RSub(intersectBottom, intersectTop))
        ELSE RectDefault

\* Rect::intersection(const Rect&)
RectIntersectionOf(a, b) ==
    LET intersectLeft   == RMax(a.x, b.x)
        intersectTop    == RMax(a.y, b.y)
        intersectRight  == RMin(RectRight(a), RectRight(b))
        intersectBottom == RMin(RectBottom(a), RectBottom(b))
    IN  IF RLt(intersectLeft, intersectRight) /\ RLt(intersectTop, intersectBottom)
        THEN MkRect(intersectLeft, intersectTop, RSub(intersectRight, intersectLeft),
                    RSub(intersectBottom, intersectTop))
        ELSE RectDefault

\* mutant of RectExpandBy: x and y are assigned before width and height
RectExpandBy_MovedFirst(r, point) ==
    LET newX == RMin(r.x, point.x)
        newY == RMin(r.y, point.y)
        moved == MkRect(newX, newY, r.width, r.height)
    IN  MkRect(newX, newY, RSub(RMax(RectRight(moved), point.x), newX),
               RSub(RMax(RectBottom(moved), point.y), newY))

\* Rect::expand(const Vector2&): the rectangle after the call
RectExpandBy(r, point) ==
    LET newX == RMin(r.x, point.x)
        newY == RMin(r.y, point.y)
    IN  MkRect(newX, newY, RSub(RMax(RectRight(r), point.x), newX),
               RSub(RMax(RectBottom(r), point.y), newY))

(***************************************************************************)
(* Rect: inputs and operations                                             *)
(***************************************************************************)
\* expand calls made on one rectangle
MaxExpands == 2

\* arguments of Rect(x, y, width, height)
SampleRects ==
    { MkRect(Zero, Zero, One, One), MkRect(Zero, Zero, Two, Two),
      MkRect(One, One, Two, Two), MkRect(Two, Zero, One, One),
      MkRect(<<1, 2>>, <<1, 2>>, One, One), MkRect(One, Zero, Zero, I(3)),
      MkRect(I(3), I(3), I(-2), I(-2)), RectDefault }

\* points handed to contains and expand
SampleRectPoints ==
    { IVec2(0, 0), IVec2(1, 1), IVec2(-1, 3), IVec2(3, -1),
      Vec2(Two, <<1, 2>>), Vec2(<<1, 2>>, <<1, 2>>) }

\* every Rect variable as default-constructed
RectIdle(a, b, n, r) == a = RectDefault /\ b = RectDefault /\ n = <<>> /\ r = NoCall

RectIntersects ==
    /\ cres' = Call("Rect::intersects", <<ra, rb>>, Ok(RectIntersectsRect(ra, rb)))
    /\ UNCHANGED <<ra, rb, expands>>
    /\ UNCHANGED <<matVars, quatVars, geoVars, vecVars, rayVars>>

RectIntersection ==
    /\ cres' = Call("Rect::intersection", <<ra, rb>>, Ok(RectIntersectionOf(ra, rb)))
    /\ UNCHANGED <<ra, rb, expands>>
    /\ UNCHANGED <<matVars, quatVars, geoVars, vecVars, rayVars>>

RectContains ==
    \E p \in SampleRectPoints :
        /\ cres' = Call("Rect::contains", <<ra, p>>, Ok(RectContainsPoint(ra, p)))
        /\ UNCHANGED <<ra, rb, expands>>
        /\ UNCHANGED <<matVars, quatVars, geoVars, vecVars, rayVars>>

RectExpand ==
    \E p \in SampleRectPoints :
        /\ Len(expands) < MaxExpands
        /\ ra' = RectExpandBy(ra, p)
        /\ expands' = Append(expands, [rect |-> ra, point |-> p])
        /\ cres' = Call("Rect::expand", <<ra, p>>, Ok(RectExpandBy(ra, p)))
        /\ UNCHANGED rb
        /\ UNCHANGED <<matVars, quatVars, geoVars, vecVars, rayVars>>

RectNext ==
    \/ RectIntersects
    \/ RectIntersection
    \/ RectContains
    \/ RectExpand

(***************************************************************************)
(* Initial states: the objects of one component are constructed from the   *)
(* sampled arguments, the others default-constructed                       *)
(***************************************************************************)
MatInit ==
    /\ mat \in SampleMatrices
    /\ edits = 0
    /\ mres = NoCall
    /\ QuatIdle(qa, qb, euler, qsrc, qres)
    /\ GeoIdle(pn, pq, plane, vp, frustum, ta, tb, gres)
    /\ VecIdle(vT, v2a, v2b, v3a, v3b, vres, vwrites)
    /\ RayIdle(ray, box, sphere, tMin, tMax, tHit, rres)
    /\ RectIdle(ra, rb, expands, cres)

\* either two operands built by Quaternion(w, x, y, z), or three angles
\* about to be handed to fromEulerAngles
QuatInit ==
    /\ MatIdle(mat, edits, mres)
    /\ GeoIdle(pn, pq, plane, vp, frustum, ta, tb, gres)
    /\ VecIdle(vT, v2a, v2b, v3a, v3b, vres, vwrites)
    /\ RayIdle(ray, box, sphere, tMin, tMax, tHit, rres)
    /\ RectIdle(ra, rb, expands, cres)
    /\ qres = NoCall
    /\ \/ /\ \E pr \in SamplePairs : qa = pr[1] /\ qb = pr[2]
          /\ euler = NoEuler
          /\ qsrc = "components"
       \/ /\ qa = QuatDefault
          /\ qb = QuatDefault
          /\ euler \in [pitch : SamplePitches, yaw : SampleAngles, roll : SampleAngles]
          /\ qsrc = "angles"

\* the arguments of one of: the Plane constructors, updatePlanes, interpolate
GeoInit ==
    /\ MatIdle(mat, edits, mres)
    /\ QuatIdle(qa, qb, euler, qsrc, qres)
    /\ VecIdle(vT, v2a, v2b, v3a, v3b, vres, vwrites)
    /\ RayIdle(ray, box, sphere, tMin, tMax, tHit, rres)
    /\ RectIdle(ra, rb, expands, cres)
    /\ plane = PlaneDefault
    /\ frustum = FrustumDefault
    /\ gres = NoCall
    /\ \/ /\ pn \in SampleNormals
          /\ pq \in SamplePlanePoints
          /\ vp = MatDefault
          /\ ta = TransformDefault /\ tb = TransformDefault
       \/ /\ pn = IVec3(0, 1, 0)
          /\ pq = IVec3(0, 0, 0)
          /\ vp \in SampleViewProjections
          /\ ta = TransformDefault /\ tb = TransformDefault
       \/ /\ pn = IVec3(0, 1, 0)
          /\ pq = IVec3(0, 0, 0)
          /\ vp = MatDefault
          /\ \E pr \in SampleTransformPairs : ta = pr[1] /\ tb = pr[2]

\* a default-constructed frustum
FrustumInit ==
    /\ MatIdle(mat, edits, mres)
    /\ QuatIdle(qa, qb, euler, qsrc, qres)
    /\ GeoIdle(pn, pq, plane, vp, frustum, ta, tb, gres)
    /\ VecIdle(vT, v2a, v2b, v3a, v3b, vres, vwrites)
    /\ RayIdle(ray, box, sphere, tMin, tMax, tHit, rres)
    /\ RectIdle(ra, rb, expands, cres)

\* a default-constructed ray
RayCtorInit ==
    /\ MatIdle(mat, edits, mres)
    /\ QuatIdle(qa, qb, euler, qsrc, qres)
    /\ GeoIdle(pn, pq, plane, vp, frustum, ta, tb, gres)
    /\ VecIdle(vT, v2a, v2b, v3a, v3b, vres, vwrites)
    /\ RayIdle(ray, box, sphere, tMin, tMax, tHit, rres)
    /\ RectIdle(ra, rb, expands, cres)

\* a ray and one of: a box, a sphere, a plane
RayInit ==
    /\ MatIdle(mat, edits, mres)
    /\ QuatIdle(qa, qb, euler, qsrc, qres)
    /\ GeoIdle(pn, pq, PlaneDefault, vp, frustum, ta, tb, gres)
    /\ VecIdle(vT, v2a, v2b, v3a, v3b, vres, vwrites)
    /\ RectIdle(ra, rb, expands, cres)
    /\ tMin = TUnset /\ tMax = TUnset /\ tHit = TUnset
    /\ rres = NoCall
    /\ \/ /\ ray \in SampleRays
          /\ box \in SampleBoxes
          /\ sphere = SphereDefault
          /\ plane = PlaneDefault
       \/ /\ ray \in CtorRays
          /\ box = AABBDefault
          /\ sphere \in SampleSpheres
          /\ plane = PlaneDefault
       \/ /\ ray \in CtorRays
          /\ box = AABBDefault
          /\ sphere = SphereDefault
          /\ plane \in SamplePlanes

\* boxes built by AABB(min, max), the first with min > max
QueryBoxes ==
    { MkAABB(IVec3(1, 1, 1), IVec3(-1, -1, -1)), MkAABB(IVec3(-1, -1, -1), IVec3(1, 1, 1)) }

\* spheres built by Sphere(center, radius), the first with a negative radius
QuerySpheres == { MkSphere(IVec3(0, 0, 0), I(-4)), SphereDefault }

QueryRays == ZeroRays \cup { RayDefault }

\* a ray, a box, a sphere, a plane and a frustum: default-constructed, built
\* by their constructors, or with a public member written afterwards
QueryInit ==
    /\ MatIdle(mat, edits, mres)
    /\ QuatIdle(qa, qb, euler, qsrc, qres)
    /\ GeoIdle(pn, pq, PlaneDefault, MatDefault, FrustumDefault, ta, tb, gres)
    /\ VecIdle(vT, v2a, v2b, v3a, v3b, vres, vwrites)
    /\ RectIdle(ra, rb, expands, cres)
    /\ tMin = TUnset /\ tMax = TUnset /\ tHit = TUnset
    /\ rres = NoCall
    /\ ray \in QueryRays
    /\ box \in QueryBoxes
    /\ sphere \in QuerySpheres
    /\ plane \in { PlaneDefault, PlaneFromDistance(IVec3(3, 4, 0), One).value }
    /\ \/ vp = MatDefault /\ frustum = FrustumDefault
       \/ /\ vp = MatOrthographic(I(-2), I(2), I(-1), I(1), I(1), I(3))
          /\ frustum = FrustumUpdatePlanes(vp).value

\* two rectangles
RectInit ==
    /\ MatIdle(mat, edits, mres)
    /\ QuatIdle(qa, qb, euler, qsrc, qres)
    /\ GeoIdle(pn, pq, plane, vp, frustum, ta, tb, gres)
    /\ VecIdle(vT, v2a, v2b, v3a, v3b, vres, vwrites)
    /\ RayIdle(ray, box, sphere, tMin, tMax, tHit, rres)
    /\ ra \in SampleRects
    /\ rb \in SampleRects
    /\ expands = <<>>
    /\ cres = NoCall

\* two Vector2 and two Vector3 operands of one scalar type
VecInit ==
    /\ MatIdle(mat, edits, mres)
    /\ QuatIdle(qa, qb, euler, qsrc, qres)
    /\ GeoIdle(pn, pq, plane, vp, frustum, ta, tb, gres)
    /\ RayIdle(ray, box, sphere, tMin, tMax, tHit, rres)
    /\ RectIdle(ra, rb, expands, cres)
    /\ vwrites = 0
    /\ vT \in ScalarTypes
    /\ \/ \E x \in SampleScalars(vT), y \in SampleScalars(vT), z \in SampleScalars(vT) :
             /\ v2a = Vec2(x, y)
             /\ v2b = Vec2(z, y)
             /\ v3a = Vec3(y, x, z)
             /\ v3b = Vec3(y, x, x)
       \/ /\ v2a \in SampleVectors2(vT)
          /\ v3a \in SampleVectors3(vT)
          /\ v2b = IVec2(0, 0)
          /\ v3b = IVec3(0, 0, 0)
    /\ vres = NoCall

\* two unit Vector3f or Vector3d operands
SlerpInit ==
    /\ MatIdle(mat, edits, mres)
    /\ QuatIdle(qa, qb, euler, qsrc, qres)
    /\ GeoIdle(pn, pq, plane, vp, frustum, ta, tb, gres)
    /\ RayIdle(ray, box, sphere, tMin, tMax, tHit, rres)
    /\ RectIdle(ra, rb, expands, cres)
    /\ vwrites = 0
    /\ vT \in { "float", "double" }
    /\ v2a = IVec2(0, 0)
    /\ v2b = IVec2(0, 0)
    /\ v3a \in UnitVectors
    /\ v3b \in UnitVectors
    /\ vres = NoCall

(***************************************************************************)
(* Specifications: one per component                                       *)
(***************************************************************************)
SpecMatrix == MatInit /\ [][MatNext]_vars

SpecQuat == QuatInit /\ [][QuatNext]_vars

SpecGeo == GeoInit /\ [][GeoNext]_vars

SpecVec == VecInit /\ [][VecNext]_vars

SpecRay == RayInit /\ [][RayNext]_vars

SpecFrustum == FrustumInit /\ [][FrustumNext]_vars

SpecRayCtor == RayCtorInit /\ [][RayCtorNext]_vars

SpecSlerp == SlerpInit /\ [][SlerpNext]_vars

SpecQuery == QueryInit /\ [][QueryNext]_vars

SpecRect == RectInit /\ [][RectNext]_vars

(***************************************************************************)
(* Claims                                                                  *)
(***************************************************************************)
\* C1: for every invertible matrix M (inverse() returned without error),
\* M * M.inverse() is the identity matrix in all 16 entries.
C1_ProductWithInverseIsIdentity ==
    (mres.op = "inverse" /\ mres.status = "ok")
        => MatMul(mres.arg, mres.value) = MatIdentity

\* C2: inverse() signals the runtime error exactly when |determinant()| is
\* below epsilon and returns a matrix otherwise; the all-zero matrix signals it.
C2_InverseThrowsIffSingular ==
    mres.op = "inverse" =>
        /\ mres.status \in {"ok", "runtime_error"}
        /\ mres.status = "runtime_error"
              <=> BelowEps("float", RAbs(MatDeterminant(mres.arg)))
        /\ mres.arg = MatZero => mres.status = "runtime_error"

\* C2 witness: inverse() has thrown on the all-zero matrix
C2_Witness ==
    mres.op = "inverse" /\ mres.arg = MatZero /\ mres.status = "runtime_error"

\* C3: fromEulerAngles(p, y, r).toEulerAngles() returns (x, y, z) = (p, y, r)
\* for every pitch p away from +-90 degrees.
C3_EulerRoundTrip ==
    (qsrc = "euler" /\ qres.op = "toEulerAngles")
        => qres.value = [x |-> euler.pitch, y |-> euler.yaw, z |-> euler.roll]

\* C4: for an affine view-projection matrix M, Frustum(M).contains(p) holds
\* exactly when M * p lies in the closed cube [-1, 1]^3; the frustum of the
\* identity contains the origin and rejects (5, 0, 0).
C4_ContainsIffInClipCube ==
    (/\ gres.op = "contains"
     /\ FrustumUpdatePlanes(vp).status = "ok"
     /\ gres.arg[1] = FrustumUpdatePlanes(vp).value)
        => /\ gres.value <=> InClipCube(MatMulVec(vp, gres.arg[2]))
           /\ (vp = MatIdentity /\ gres.arg[2] = IVec3(0, 0, 0)) => gres.value
           /\ (vp = MatIdentity /\ gres.arg[2] = IVec3(5, 0, 0)) => ~gres.value

\* C5: for every non-zero normal n and point q, Plane(n, q) is constructed
\* with a stored normal of length 1 and distanceToPoint(q) = 0.
C5_PlaneThroughPoint ==
    (gres.op = "Plane(normal, point)" /\ gres.arg[1] # IVec3(0, 0, 0))
        => /\ gres.status = "ok"
           /\ V3LengthSquared(plane.normal) = One
           /\ PlaneDistanceToPoint(plane, gres.arg[2]) = Zero

\* C6: an error raised inside a Plane constructor, Frustum::updatePlanes or
\* Transform::interpolate reaches the caller as an exception; it never ends
\* the program.
C6_ErrorsReachTheCaller ==
    gres.op \in {"Plane(normal, distance)", "Plane(normal, point)", "updatePlanes", "interpolate"}
        => gres.status # "terminate"

\* C7: for Vector2 and Vector3 over float, double and int, v == v is true and
\* v != v is false.
C7_EqualityReflexive ==
    /\ (vres.op \in {"Vector2::operator==", "Vector3::operator=="}
            /\ vres.arg[1] = vres.arg[2]) => vres.value = TRUE
    /\ (vres.op \in {"Vector2::operator!=", "Vector3::operator!="}
            /\ vres.arg[1] = vres.arg[2]) => vres.value = FALSE

IsUnit(q) == QMagSquared(q) = One

\* C8: inverse() signals the runtime error exactly when the squared magnitude
\* is below epsilon; for a unit quaternion q, q.inverse() is q.conjugate()
\* and q * q.inverse() is the identity (1, 0, 0, 0).
C8_UnitInverseIsConjugate ==
    qres.op = "inverse" =>
        /\ qres.status \in {"ok", "runtime_error"}
        /\ qres.status = "runtime_error" <=> BelowEps("float", QMagSquared(qres.arg))
        /\ IsUnit(qres.arg) =>
              /\ qres.status = "ok"
              /\ qres.value = QConjugate(qres.arg)
              /\ QMul(qres.arg, qres.value) = IQuat(1, 0, 0, 0)

\* C8 witness: a unit quaternion with non-zero vector part has been inverted
C8_Witness ==
    /\ qres.op = "inverse"
    /\ qres.status = "ok"
    /\ IsUnit(qres.arg)
    /\ qres.arg.x # Zero /\ qres.arg.y # Zero /\ qres.arg.z # Zero

\* C9 as stated: slerp(q, q, t) returns q for every quaternion q and every t.
C9_SlerpSameAnyQuat ==
    (qres.op = "slerp" /\ qres.arg[1] = qres.arg[2])
        => (qres.status = "ok" /\ qres.value = qres.arg[1])

\* C9 amended: slerp(q, q, t) returns q for every unit-magnitude quaternion q
\* and every t.
C9_SlerpSameUnitQuat ==
    (qres.op = "slerp" /\ qres.arg[1] = qres.arg[2] /\ IsUnit(qres.arg[1]))
        => (qres.status = "ok" /\ qres.value = qres.arg[1])

\* C9 witness: a unit quaternion other than the identity interpolated with
\* itself at t = 1/2
C9_Witness ==
    /\ qres.op = "slerp"
    /\ qres.arg[1] = qres.arg[2]
    /\ IsUnit(qres.arg[1])
    /\ qres.arg[1].x # Zero
    /\ qres.arg[3] = <<1, 2>>
    /\ qres.status = "ok"

\* C10: for unit quaternions q1, q2 with non-zero dot product and every t,
\* slerp(q1, q2, t) equals slerp(q1, -q2, t), and in both calls the operand
\* interpolated (q2_adj) has a non-negative dot product with q1.
C10_SlerpShortestArc ==
    (/\ qres.op = "slerp"
     /\ IsUnit(qres.arg[1])
     /\ IsUnit(qres.arg[2])
     /\ QDot(qres.arg[1], qres.arg[2]) # Zero)
        => LET q1    == qres.arg[1]
               q2    == qres.arg[2]
               other == QSlerp(q1, QNegated(q2), qres.arg[3])
           IN  /\ other.status = qres.status
               /\ qres.status = "ok" => other.value = qres.value
               /\ RGe(QDot(q1, QSlerpAdjust(q1, q2).q2_adj), Zero)
               /\ RGe(QDot(q1, QSlerpAdjust(q1, QNegated(q2)).q2_adj), Zero)

\* C10 witness: two unit quaternions with negative dot product interpolated
\* on the spherical branch at t = 1/2
C10_Witness ==
    /\ qres.op = "slerp"
    /\ qres.status = "ok"
    /\ IsUnit(qres.arg[1])
    /\ IsUnit(qres.arg[2])
    /\ RLt(QDot(qres.arg[1], qres.arg[2]), Zero)
    /\ RLe(RNeg(QDot(qres.arg[1], qres.arg[2])), SlerpThreshold)
    /\ qres.arg[3] = <<1, 2>>

\* the parameters at which the line of ray r crosses a face plane of box b,
\* and 0: when the line meets the box, the first parameter inside is one of them
SlabCrossings(b, r) ==
    { Zero } \cup
    UNION { { RDiv(RSub(VIdx(b.min, i), VIdx(r.origin, i)), VIdx(r.direction, i)),
              RDiv(RSub(VIdx(b.max, i), VIdx(r.origin, i)), VIdx(r.direction, i)) } :
            i \in { j \in 0 .. 2 : VIdx(r.direction, j) # Zero } }

\* what C11 states of one AABB::intersects call on box b and ray r
AABBQueryAgrees(b, r, hit) ==
    /\ hit => IF tMin = NegInf \/ tMax = PosInf
              \* every axis took the parallel branch: direction * infinity has
              \* a NaN or an infinite component, which no box contains
              THEN FALSE
              ELSE /\ RLe(tMin, tMax)
                   /\ AABBContains(b, RayGetPoint(r, tMin))
                   /\ AABBContains(b, RayGetPoint(r, tMax))
    /\ ~hit => \A t \in SlabCrossings(b, r) : ~AABBContains(b, RayGetPoint(r, t))

\* C11 as stated: for every ray, when AABB::intersects returns true then
\* tMin <= tMax and the points at tMin and tMax are contained in the box, and
\* when it returns false no point of the ray's line is contained in the box.
C11_AABBQueryAnyRay ==
    rres.op = "AABB::intersects" =>
        AABBQueryAgrees(rres.arg[1], rres.arg[2], rres.value)

\* C11 for rays whose direction is not the zero vector and has components
\* each exactly zero or not below epsilon(): when AABB::intersects returns true
\* then tMin <= tMax and the points at tMin and tMax are contained in the box,
\* and when it returns false no point of the ray's line is contained in the box.
C11_AABBQueryResolvedRay ==
    (/\ rres.op = "AABB::intersects"
     /\ Resolved(rres.arg[2])
     /\ rres.arg[2].direction # IVec3(0, 0, 0)) =>
        AABBQueryAgrees(rres.arg[1], rres.arg[2], rres.value)

\* the ray from (-5,0,0) along +x meets the box (-1,-1,-1)..(1,1,1) on [4, 6]
C11_Witness ==
    /\ rres.op = "AABB::intersects"
    /\ rres.arg[1] = MkAABB(IVec3(-1, -1, -1), IVec3(1, 1, 1))
    /\ rres.arg[2] = MkRay(IVec3(-5, 0, 0), IVec3(1, 0, 0))
    /\ rres.value = TRUE
    /\ tMin = I(4)
    /\ tMax = I(6)

\* the parameter s >= 0 at which the ray r (unit direction) is nearest to the
\* centre of sphere s: some point of the ray is in the sphere iff this one is
NearestParameter(s, r) ==
    RMax(Zero, RNeg(V3Dot(V3Sub(r.origin, s.center), r.direction)))

\* parameters before t: the origin, half way, and one rounding step of
\* std::sqrt before t
EarlierParameters(t) ==
    { u \in { Zero, RDiv(t, Two), RSub(t, R(1, SqrtScale)) } : RGe(u, Zero) /\ RLt(u, t) }

\* C12: Sphere::intersects returns true exactly when some point of the ray at
\* a parameter s >= 0 is contained in the sphere; then the reported t is >= 0,
\* the point at t is contained, no point at an earlier parameter is, and t is
\* 0 when the origin is contained.
C12_SphereQuery ==
    rres.op = "Sphere::intersects" =>
        LET s == rres.arg[1]
            r == rres.arg[2]
        IN  /\ rres.value = SphereContains(s, RayGetPoint(r, NearestParameter(s, r)))
            /\ rres.value =>
                  /\ RGe(tHit, Zero)
                  /\ SphereContains(s, RayGetPoint(r, tHit))
                  /\ \A u \in EarlierParameters(tHit) : ~SphereContains(s, RayGetPoint(r, u))
                  /\ SphereContains(s, r.origin) => tHit = Zero

\* the ray from (0,0,-5) along +z meets the unit sphere at t = 4
C12_Witness ==
    /\ rres.op = "Sphere::intersects"
    /\ rres.arg[1] = SphereDefault
    /\ rres.arg[2] = MkRay(IVec3(0, 0, -5), IVec3(0, 0, 1))
    /\ rres.value = TRUE
    /\ tHit = I(4)

\* C13: Plane::intersects returns false when |normal . direction| is below
\* epsilon(); otherwise it returns true exactly when the parameter at which the
\* ray's line meets the plane is >= 0 (the origin is on the plane, or the ray
\* moves towards it), and then t >= 0 and the point at t is on the plane.
C13_PlaneQuery ==
    rres.op = "Plane::intersects" =>
        LET p == rres.arg[1]
            r == rres.arg[2]
            denom == V3Dot(p.normal, r.direction)
            ahead == RLe(RMul(PlaneDistanceToPoint(p, r.origin), denom), Zero)
        IN  IF BelowEps("float", RAbs(denom))
            THEN rres.value = FALSE
            ELSE /\ rres.value = ahead
                 /\ rres.value =>
                       /\ RGe(tHit, Zero)
                       /\ PlaneDistanceToPoint(p, RayGetPoint(r, tHit)) = Zero

\* the ray from (0,5,0) along -y meets the plane y = 0 at t = 5
C13_Witness ==
    /\ rres.op = "Plane::intersects"
    /\ rres.arg[1] = MkPlane(IVec3(0, 1, 0), Zero)
    /\ rres.arg[2] = MkRay(IVec3(0, 5, 0), IVec3(0, -1, 0))
    /\ rres.value = TRUE
    /\ tHit = I(5)

\* C14: Frustum::intersects is conservative: when the frustum contains some
\* point of the box (a corner or the centre) it returns true, and it returns
\* false only if for some plane the positive vertex, and with it every corner
\* of the box, has a negative signed distance.
C14_FrustumBoxConservative ==
    gres.op = "intersects" =>
        LET f == gres.arg[1]
            b == gres.arg[2]
        IN  /\ (\E p \in BoxPoints(b) : FrustumContains(f, p)) => gres.value = TRUE
            /\ gres.value = FALSE =>
                  \E k \in PlaneIdx :
                      /\ RLt(PlaneDistanceToPoint(f[k], PositiveVertex(f[k], b)), Zero)
                      /\ \A p \in BoxPoints(b) : RLt(PlaneDistanceToPoint(f[k], p), Zero)

\* a frustum built by updatePlanes contains a corner of the box handed to
\* intersects, which returns true
C14_Witness ==
    /\ gres.op = "intersects"
    /\ gres.arg[1] # FrustumDefault
    /\ \E p \in BoxPoints(gres.arg[2]) : FrustumContains(gres.arg[1], p)
    /\ \E p \in BoxPoints(gres.arg[2]) : ~FrustumContains(gres.arg[1], p)
    /\ gres.value = TRUE

\* C15: for a transform whose rotation has unit magnitude, transformPoint(p)
\* is the product of toMatrix() with p, and transformDirection(d) is the
\* product of the rotation matrix with d, the same for every position and scale.
C15_TransformAgreesWithMatrix ==
    /\ (gres.op = "transformPoint" /\ IsUnit(gres.arg[1].rotation)) =>
          gres.value = MatMulVec(TransformToMatrix(gres.arg[1]), gres.arg[2])
    /\ (gres.op = "transformDirection" /\ IsUnit(gres.arg[1].rotation)) =>
          /\ gres.value = MatMulVec(QToRotationMatrix(gres.arg[1].rotation), gres.arg[2])
          /\ \A pr \in SampleTransformPairs :
                pr[1].rotation = gres.arg[1].rotation =>
                    TransformDirection(pr[1], gres.arg[2]) = gres.value

\* a point transformed by a unit rotation about (1,1,1), a non-uniform scale
\* and a translation
C15_Witness ==
    /\ gres.op = "transformPoint"
    /\ gres.arg[1] = MkTransform(IVec3(1, 2, 3), Quat(<<1, 2>>, <<1, 2>>, <<1, 2>>, <<1, 2>>),
                                 IVec3(2, 3, 5))
    /\ gres.arg[2] = IVec3(1, 2, 3)
    /\ gres.value = IVec3(16, 4, 9)

\* C16: whenever a.intersects(b) is false, a.intersection(b) is the zero
\* rectangle (x = y = width = height = 0); and a.intersection(b) equals
\* b.intersection(a).
C16_IntersectionZeroAndSymmetric ==
    cres.op = "Rect::intersection" =>
        LET a == cres.arg[1]
            b == cres.arg[2]
        IN  /\ ~RectIntersectsRect(a, b) => cres.value = MkRect(Zero, Zero, Zero, Zero)
            /\ cres.value = RectIntersectionOf(b, a)

\* two rectangles that do not intersect, one of them with an area
C16_Witness ==
    /\ cres.op = "Rect::intersection"
    /\ cres.arg[1] = MkRect(Zero, Zero, Two, Two)
    /\ cres.arg[2] = MkRect(Two, Zero, One, One)
    /\ cres.value = MkRect(Zero, Zero, Zero, Zero)

\* C17: after r.expand(p) on a rectangle r with non-negative width and height,
\* r.contains(p) returns true.
C17_ExpandedContainsPoint ==
    (/\ cres.op = "Rect::expand"
     /\ RGe(cres.arg[1].width, Zero)
     /\ RGe(cres.arg[1].height, Zero)) =>
        RectContainsPoint(ra, cres.arg[2])

\* the length of the vector a call was made on, and of the vector it returned
\* or left in *this
LengthOf(T, v) ==
    IF "z" \in DOMAIN v THEN V3Length(T, v) ELSE V2Length(T, v)

\* what C18 states of one normalisation of v with outcome r, left holding the
\* vector the call was made on when it is the in-place form
NormalisationAgrees(T, v, r, inPlace, left) ==
    IF BelowEps(T, LengthOf(T, v))
    THEN /\ r.status = "domain_error"
         /\ inPlace => left = v
    ELSE /\ r.status = "ok"
         /\ LengthOf(T, r.value) = One
         /\ inPlace => left = r.value

\* C18: for every Vector2 / Vector3 v whose length is not below epsilon,
\* v.normalized() has length 1 and v.normalize() leaves v with length 1; when
\* the length is below epsilon both signal the domain error and normalize()
\* leaves v unchanged.
C18_NormalisationAnyType ==
    /\ vres.op = "Vector2::normalized" =>
          NormalisationAgrees(vT, vres.arg[1], vres, FALSE, v2a)
    /\ vres.op = "Vector2::normalize" =>
          NormalisationAgrees(vT, vres.arg[1], vres, TRUE, v2a)
    /\ vres.op = "Vector3::normalized" =>
          NormalisationAgrees(vT, vres.arg[1], vres, FALSE, v3a)
    /\ vres.op = "Vector3::normalize" =>
          NormalisationAgrees(vT, vres.arg[1], vres, TRUE, v3a)

\* the quotient of every component of v by k in the scalar type T
ComponentsDivided(T, v, k) ==
    IF "z" \in DOMAIN v
    THEN Vec3(TDiv(T, v.x, k), TDiv(T, v.y, k), TDiv(T, v.z, k))
    ELSE Vec2(TDiv(T, v.x, k), TDiv(T, v.y, k))

\* what C19 states of one division of v by k with outcome r
DivisionAgrees(T, v, k, r, inPlace, left) ==
    IF BelowEps(T, RAbs(k))
    THEN /\ r.status = "invalid_argument"
         /\ inPlace => left = v
    ELSE /\ r.status = "ok"
         /\ r.value = ComponentsDivided(T, v, k)
         /\ inPlace => left = r.value

\* C19: v / s and v /= s signal the invalid-argument error exactly when |s|
\* is below epsilon; on that error the in-place form leaves v unchanged, and
\* otherwise every component is divided by s.
C19_DivisionAnyType ==
    /\ vres.op = "Vector2::operator/" =>
          DivisionAgrees(vT, vres.arg[1], vres.arg[2], vres, FALSE, v2a)
    /\ vres.op = "Vector2::operator/=" =>
          DivisionAgrees(vT, vres.arg[1], vres.arg[2], vres, TRUE, v2a)
    /\ vres.op = "Vector3::operator/" =>
          DivisionAgrees(vT, vres.arg[1], vres.arg[2], vres, FALSE, v3a)
    /\ vres.op = "Vector3::operator/=" =>
          DivisionAgrees(vT, vres.arg[1], vres.arg[2], vres, TRUE, v3a)

\* row i of matrix m applied to the homogeneous point (v, 1)
RowTimesPoint(m, i, v) ==
    RAdd(RAdd(RMul(m[i][0], v.x), RMul(m[i][1], v.y)), RAdd(RMul(m[i][2], v.z), m[i][3]))

AffineImage(m, v) ==
    Vec3(RowTimesPoint(m, 0, v), RowTimesPoint(m, 1, v), RowTimesPoint(m, 2, v))

\* C20: identity() * v is v; for a matrix whose bottom row is (0,0,0,1) the
\* product is the affine image of v; and in general the affine image is
\* divided by w exactly when |w| exceeds epsilon.
C20_MatrixTimesVector ==
    mres.op = "operator*(Vector3)" =>
        LET m == mres.arg[1]
            v == mres.arg[2]
            w == RowTimesPoint(m, 3, v)
        IN  /\ m = MatIdentity => mres.value = v
            /\ (m[3] = [j \in Idx |-> IF j = 3 THEN One ELSE Zero]) =>
                  mres.value = AffineImage(m, v)
            /\ AboveEps("float", RAbs(w)) =>
                  mres.value = V3Scale(AffineImage(m, v), RDiv(One, w))
            /\ ~AboveEps("float", RAbs(w)) => mres.value = AffineImage(m, v)

\* the translation by (1,2,3) applied to (2,3,5)
C20_Witness ==
    /\ mres.op = "operator*(Vector3)"
    /\ mres.arg[1] = MatTranslation(IVec3(1, 2, 3))
    /\ mres.arg[2] = IVec3(2, 3, 5)
    /\ mres.value = IVec3(3, 5, 8)

\* a finite scalar
IsScalar(x) == x[2] > 0

\* C21: no geometric query signals an error: AABB::intersects, AABB::contains,
\* Plane::intersects, Sphere::intersects, Sphere::contains, Frustum::contains
\* and Frustum::intersects return a boolean and Plane::distanceToPoint returns
\* a scalar, for every input: also for a ray whose direction was set to zero, a
\* box with min > max and a sphere with a negative radius.
C21_QueriesNeverSignal ==
    /\ rres.op \in { "AABB::intersects", "AABB::contains", "Plane::intersects",
                     "Sphere::intersects", "Sphere::contains" } =>
          /\ rres.status = "ok"
          /\ rres.value \in BOOLEAN
    /\ gres.op \in { "contains", "intersects" } =>
          /\ gres.status = "ok"
          /\ gres.value \in BOOLEAN
    /\ gres.op = "distanceToPoint" =>
          /\ gres.status = "ok"
          /\ IsScalar(gres.value)

\* AABB::intersects answered for a ray with zero direction and the box with
\* min > max, after Frustum::intersects answered
C21_Witness ==
    /\ rres.op = "AABB::intersects"
    /\ rres.arg[1] = MkAABB(IVec3(1, 1, 1), IVec3(-1, -1, -1))
    /\ rres.arg[2] = MkRay(IVec3(-5, 0, 0), IVec3(0, 0, 0))
    /\ rres.status = "ok"
    /\ sphere.radius = I(-4)
    /\ gres.op = "intersects"
    /\ gres.status = "ok"

\* C22: after any sequence of updatePlanes calls the six planes depend only on
\* the matrix of the last call: updatePlanes(M) on a frustum in any prior state
\* leaves exactly the planes of a freshly constructed Frustum(M), and every
\* plane has a normal of length 1 and its distance divided by the same length.
C22_PlanesOfLastMatrix ==
    (gres.op = "updatePlanes" /\ gres.status = "ok") =>
        LET m == gres.arg[2]
        IN  /\ frustum = FrustumUpdatePlanes(m).value
            /\ \A k \in PlaneIdx :
                  LET length == V3Length("float", FrustumRawNormal(m, k))
                  IN  /\ V3LengthSquared(frustum[k].normal) = One
                      /\ frustum[k].normal = V3Scale(FrustumRawNormal(m, k), RDiv(One, length))
                      /\ frustum[k].distance = RDiv(RSub(m[3][3], m[3][k \div 2]), length)

\* updatePlanes(scaling(2,3,4)) on the planes left by an earlier call with
\* another matrix
C22_Witness ==
    /\ gres.op = "updatePlanes"
    /\ gres.status = "ok"
    /\ gres.arg[2] = MatScaling(IVec3(2, 3, 4))
    /\ gres.arg[1] # FrustumDefault
    /\ gres.arg[1] # frustum

C24_CompositionRightFirst ==
    /\ qres.op = "rotate by product" =>
          qres.value = QRotate(qres.arg[1], QRotate(qres.arg[2], qres.arg[3]))
    /\ qres.op = "rotate" =>
          LET q == qres.arg[1]
              v == qres.arg[2]
              r == QMul(QMul(q, Quat(Zero, v.x, v.y, v.z)), QConjugate(q))
          IN  qres.value = Vec3(r.x, r.y, r.z) /\ r.w = Zero

\* (q1 * q2) * (1,2,3) for q1 = (3/5, 4/5, 0, 0) and q2 = (1/2, 1/2, 1/2, 1/2),
\* which do not commute: q2 takes (1,2,3) to (3,1,2), q1 takes that to
\* (3, -11/5, 2/5)
C24_Witness ==
    /\ qres.op = "rotate by product"
    /\ qres.arg[1] = Quat(<<3, 5>>, <<4, 5>>, Zero, Zero)
    /\ qres.arg[2] = Quat(<<1, 2>>, <<1, 2>>, <<1, 2>>, <<1, 2>>)
    /\ qres.arg[3] = IVec3(1, 2, 3)
    /\ qres.value = Vec3(I(3), <<-11, 5>>, <<2, 5>>)
    /\ QMul(qres.arg[1], qres.arg[2]) # QMul(qres.arg[2], qres.arg[1])

\* C25: dividing a vector by a scalar that is exactly zero signals the
\* invalid-argument error in every instantiation of Vector2 and Vector3, the
\* integer ones included; no division by zero is executed.
C25_ZeroDivisorSignals ==
    (/\ vres.op \in { "Vector2::operator/", "Vector2::operator/=",
                      "Vector3::operator/", "Vector3::operator/=" }
     /\ vres.arg[2] = Zero) =>
        vres.status = "invalid_argument"

\* C26: whenever AABB::intersects returns true the reported tMax is >= 0: tMin
\* and tMax are distances along the ray, and a box lying entirely behind the
\* ray origin is not reported as intersecting.
C26_BoxBehindOriginNotReported ==
    (rres.op = "AABB::intersects" /\ rres.value = TRUE) => RGe(tMax, Zero)

\* C27: Vector3::slerp(a, b, t) returns a value without signalling an error
\* for all unit vectors a and b and all t in [0, 1], the parallel cases b = a
\* and b = -a included; slerp(a, a, t) returns a.
C27_SlerpOfUnitVectors ==
    vres.op = "Vector3::slerp" =>
        /\ vres.status = "ok"
        /\ vres.arg[1] = vres.arg[2] => vres.value = vres.arg[1]

\* C28: for all rectangles a and b, zero-width and zero-height ones included,
\* a.intersects(b) is true exactly when a.intersection(b) has positive width
\* and positive height; and when the intersection is non-empty, every point it
\* contains is contained in both a and b.
C28_IntersectsIffIntersectionHasArea ==
    /\ cres.op = "Rect::intersects" =>
          LET i == RectIntersectionOf(cres.arg[1], cres.arg[2])
          IN  cres.value <=> (RGt(i.width, Zero) /\ RGt(i.height, Zero))
    /\ (/\ cres.op = "Rect::intersection"
        /\ RGt(cres.value.width, Zero)
        /\ RGt(cres.value.height, Zero)) =>
          \A p \in SampleRectPoints :
              RectContainsPoint(cres.value, p) =>
                  /\ RectContainsPoint(cres.arg[1], p)
                  /\ RectContainsPoint(cres.arg[2], p)

\* C29: starting from a rectangle with non-negative width and height, after
\* any sequence of expand(p) calls the width and height are non-negative, the
\* original closed bounds lie inside the new ones, every point expanded so far
\* satisfies left <= p.x <= right and top <= p.y <= bottom, and expanding by
\* such a point once more changes nothing.
C29_ExpandOnlyGrows ==
    LET original == IF expands = <<>> THEN ra ELSE expands[1].rect
    IN  (RGe(original.width, Zero) /\ RGe(original.height, Zero)) =>
            /\ RGe(ra.width, Zero)
            /\ RGe(ra.height, Zero)
            /\ RLe(ra.x, original.x)
            /\ RLe(ra.y, original.y)
            /\ RGe(RectRight(ra), RectRight(original))
            /\ RGe(RectBottom(ra), RectBottom(original))
            /\ \A i \in 1 .. Len(expands) :
                  LET p == expands[i].point
                  IN  /\ RLe(ra.x, p.x) /\ RLe(p.x, RectRight(ra))
                      /\ RLe(ra.y, p.y) /\ RLe(p.y, RectBottom(ra))
                      /\ RectExpandBy(ra, p) = ra
                      /\ RectExpandBy(RectExpandBy(expands[i].rect, p), p)
                             = RectExpandBy(expands[i].rect, p)

\* the rectangle (1, 1, 2, 2) expanded by (-1, 3) and then by (3, -1) covers
\* [-1, 3] x [-1, 3]
C29_Witness ==
    /\ Len(expands) = 2
    /\ expands[1] = [rect |-> MkRect(One, One, Two, Two), point |-> IVec2(-1, 3)]
    /\ expands[2].point = IVec2(3, -1)
    /\ ra = MkRect(I(-1), I(-1), I(4), I(4))

\* C30: when Plane::intersects(ray, t) or Sphere::intersects(ray, t) returns
\* false, the caller's t is left unchanged: it is written only when a hit is
\* reported.
C30_MissLeavesOutputUntouched ==
    (rres.op \in { "Plane::intersects", "Sphere::intersects" } /\ rres.value = FALSE) =>
        tHit = rres.arg[3]

\* C30 with the miss of the plane behind the origin set apart: when
\* Sphere::intersects returns false, or Plane::intersects returns false because
\* |normal . direction| is below epsilon(), t is left unchanged; when
\* Plane::intersects returns false otherwise, t holds the negative parameter
\* at which the ray's line meets the plane.
C30_MissWritesOnlyBehindPlane ==
    /\ (rres.op = "Sphere::intersects" /\ rres.value = FALSE) => tHit = rres.arg[3]
    /\ (rres.op = "Plane::intersects" /\ rres.value = FALSE) =>
          LET p == rres.arg[1]
              r == rres.arg[2]
              denom == V3Dot(p.normal, r.direction)
          IN  IF BelowEps("float", RAbs(denom))
              THEN tHit = rres.arg[3]
              ELSE /\ RLt(tHit, Zero)
                   /\ PlaneDistanceToPoint(p, RayGetPoint(r, tHit)) = Zero

\* the ray from (0,5,0) along +y misses the plane y = 0, which lies behind
\* it at t = -5
C30_Witness ==
    /\ rres.op = "Plane::intersects"
    /\ rres.arg[1] = MkPlane(IVec3(0, 1, 0), Zero)
    /\ rres.arg[2] = MkRay(IVec3(0, 5, 0), IVec3(0, 1, 0))
    /\ rres.arg[3] = TUnset
    /\ rres.value = FALSE
    /\ tHit = I(-5)

====
